---- MODULE Spec2Model ----
(***************************************************************************)
(* State-machine model of the Salesforce MCP server.  The repository holds *)
(* two implementations of the same tool surface: the monolithic server     *)
(* (src/src/index.ts) and the modular server (src/unnamed/part_002 with    *)
(* src/src/utils/connection.ts and src/unnamed/part_001).  One behaviour   *)
(* of the model is one server process of either kind handling one          *)
(* tool-call request: session acquisition, the tool's platform calls, the  *)
(* two timeout races of the monolithic server, and the response.  A second *)
(* specification, ConcSpec, runs several invocations at once in one        *)
(* process, each with its session and the platform calls made through it.  *)
(***************************************************************************)
EXTENDS Integers, Sequences, FiniteSets, TLC

VARIABLES
  impl,            \* which server this process is: "mono" or "modular"
  config,          \* credentials read from the environment at startup
  platformObject,  \* the CustomObject descriptor currently held by the platform
  pc,              \* position of the request handler
  req,             \* the tool-call request being handled
  login,           \* promise of createConnectionInternal / the modular login
  connTimer,       \* timer of createSalesforceConnection (index.ts:86)
  connRace,        \* the promise the handler awaits for the session
  opTimer,         \* timer of executeWithTimeout (index.ts:420)
  opPromise,       \* the promise the tool function returned
  opRace,          \* the promise the handler awaits for the tool
  op,              \* the tool's coroutine: where it is suspended and its locals
  pending,         \* the platform call in flight, if any
  net,             \* login / token requests issued on the network
  calls,           \* platform calls issued through the session
  applied,         \* mutations the platform has applied
  outcome,         \* what the caller of the request handler got
  nResponses,      \* how many times the handler produced an outcome
  inv,             \* concurrent invocations: the locals of each handler activation
  sessions,        \* the Connection objects created so far, each with its creator
  log              \* platform calls of concurrent invocations: who, through which session
                   \* (a set: the calls made so far)

\* The variables of concurrent invocations.
concVars == <<inv, sessions, log>>

\* The variables of the single request.
callVars == <<platformObject, pc, req, login, connTimer, connRace,
              opTimer, opPromise, opRace, op, pending, net, calls, applied, outcome, nResponses>>

vars == <<impl, config, callVars, concVars>>

\* ---------------------------------------------------------------- bounds
MaxRecords == 2
MaxProfiles == 2
MaxSupplied == 1
MaxFlags == 2
MaxInvocations == 2
MaxCalls == 2
MaxFields == 2
MaxRows == 2
MaxGroups == 1
MaxFound == 2
MaxHits == 2

\* ------------------------------------------------------- promises, replies
Unset == [st |-> "unset"]
Pending == [st |-> "pending"]
Resolved(v) == [st |-> "resolved", v |-> v]
Rejected(m) == [st |-> "rejected", msg |-> m]
Settled(p) == p.st \in {"resolved", "rejected"}

NoCall == [api |-> "none"]
NoOp == [tool |-> "none"]
NoReq == [name |-> "none"]
NoOutcome == [kind |-> "none"]

\* The reply object {content: [{type: "text", text}], isError}.  isError is
\* "true", "false", or "absent" when the object literal has no such key.
Response(text, isError) == [kind |-> "response", text |-> text, isError |-> isError]
\* `Error: ${error.message}`
ErrorText(m) == [t |-> "error", msg |-> m]
\* An error that left the request handler as a rejected promise.
Thrown(m) == [kind |-> "thrown", msg |-> m]

\* A race whose latest settlement wins.
RaceSettleLastWins(race, settlement) == settlement

\* Promise.race: the first settlement wins, later ones are ignored.
RaceSettle(race, settlement) == IF race = Pending THEN settlement ELSE race

\* ------------------------------------------------------------ credentials
CredValues == {"absent", "empty", "set"}
\* JavaScript !x for an optional string: undefined and "" are falsy.
Falsy(x) == x \in {"absent", "empty"}

ConnectionTypes == {"OAuth_2.0_Client_Credentials", "User_Password"}

\* The configurations enumerated: every combination of the selected flow's
\* two required fields (and, for the password flow, a security token absent
\* or set), with the other flow's fields all absent or all set.
ExtensionConfig ==
  {c \in [connectionType : ConnectionTypes, clientId : CredValues, clientSecret : CredValues,
          username : CredValues, password : CredValues, securityToken : {"absent", "set"}] :
     IF c.connectionType = "OAuth_2.0_Client_Credentials"
     THEN c.username = c.password /\ c.username = c.securityToken
     ELSE c.clientId = c.clientSecret /\ c.clientId # "empty"}

\* config.securityToken || ''
OrEmpty(x) == IF Falsy(x) THEN "" ELSE x

\* conn.login(username, password + (securityToken || ''))
LoginRequest(c) ==
  [kind |-> "login", username |-> c.username, password |-> c.password,
   passwordSuffix |-> OrEmpty(c.securityToken)]

\* The token POST with its form body (index.ts:101-105).
TokenRequest(c) ==
  [kind |-> "tokenPOST", client_id |-> c.clientId, client_secret |-> c.clientSecret]

\* A presence check that fails only when both fields of the flow are missing.
createConnectionInternalBothMissing(c) ==
  IF c.connectionType = "OAuth_2.0_Client_Credentials"
  THEN IF Falsy(c.clientId) /\ Falsy(c.clientSecret)
       THEN [login |-> Rejected("Client ID and Client Secret are required for OAuth 2.0"),
             net |-> <<>>]
       ELSE [login |-> Pending,
             net |-> <<TokenRequest(c)>>]
  ELSE IF Falsy(c.username) /\ Falsy(c.password)
       THEN [login |-> Rejected("Username and Password are required"), net |-> <<>>]
       ELSE [login |-> Pending,
             net |-> <<LoginRequest(c)>>]

\* A connection that uses the client credentials whenever they are set,
\* whatever the connection type.
createConnectionInternalMixed(c) ==
  IF c.connectionType = "OAuth_2.0_Client_Credentials"
     \/ (~Falsy(c.clientId) /\ ~Falsy(c.clientSecret))
  THEN IF Falsy(c.clientId) \/ Falsy(c.clientSecret)
       THEN [login |-> Rejected("Client ID and Client Secret are required for OAuth 2.0"),
             net |-> <<>>]
       ELSE [login |-> Pending, net |-> <<TokenRequest(c)>>]
  ELSE IF Falsy(c.username) \/ Falsy(c.password)
       THEN [login |-> Rejected("Username and Password are required"), net |-> <<>>]
       ELSE [login |-> Pending, net |-> <<LoginRequest(c)>>]

\* The synchronous part of createConnectionInternal (index.ts:91-163): the
\* presence check of the selected flow, then the network request.
createConnectionInternal(c) ==
  IF c.connectionType = "OAuth_2.0_Client_Credentials"
  THEN IF Falsy(c.clientId) \/ Falsy(c.clientSecret)
       THEN [login |-> Rejected("Client ID and Client Secret are required for OAuth 2.0"),
             net |-> <<>>]
       ELSE [login |-> Pending,
             net |-> <<TokenRequest(c)>>]
  ELSE IF Falsy(c.username) \/ Falsy(c.password)
       THEN [login |-> Rejected("Username and Password are required"), net |-> <<>>]
       ELSE [login |-> Pending,
             net |-> <<LoginRequest(c)>>]

\* The synchronous part of the modular createSalesforceConnection
\* (connection.ts:17-89), which reads the same fields from the environment.
modularCreateConnection(c) ==
  IF c.connectionType = "OAuth_2.0_Client_Credentials"
  THEN IF Falsy(c.clientId) \/ Falsy(c.clientSecret)
       THEN [login |-> Rejected("SALESFORCE_CLIENT_ID and SALESFORCE_CLIENT_SECRET are required for OAuth 2.0"),
             net |-> <<>>]
       ELSE [login |-> Pending,
             net |-> <<TokenRequest(c)>>]
  ELSE IF Falsy(c.username) \/ Falsy(c.password)
       THEN [login |-> Rejected("SALESFORCE_USERNAME and SALESFORCE_PASSWORD are required"),
             net |-> <<>>]
       ELSE [login |-> Pending,
             net |-> <<LoginRequest(c)>>]

\* What the token endpoint can answer: a status and a body, which is JSON
\* with the token fields, JSON with the error fields, or not JSON at all.
TokenBody == [parsable |-> TRUE, instance_url |-> "instance_url", access_token |-> "access_token"]
ErrorBody == [parsable |-> TRUE, error |-> "invalid_client", error_description |-> "invalid client credentials"]
NotJson == [parsable |-> FALSE]
TokenResponses ==
  {[kind |-> "tokenResponse", status |-> 200, body |-> TokenBody],
   [kind |-> "tokenResponse", status |-> 200, body |-> NotJson],
   [kind |-> "tokenResponse", status |-> 400, body |-> ErrorBody],
   [kind |-> "tokenResponse", status |-> 503, body |-> NotJson]}

\* `OAuth failed: ${parsed.error} - ${parsed.error_description}`
OAuthFailed(body) ==
  IF body.error = "invalid_client" /\ body.error_description = "invalid client credentials"
  THEN "OAuth failed: invalid_client - invalid client credentials"
  ELSE "OAuth failed: undefined - undefined"

\* A token exchange that takes every JSON body for a token.
OnTokenResponseAnyStatus(r) ==
  IF ~r.body.parsable THEN Rejected("Failed to parse OAuth response")
  ELSE Resolved([instanceUrl |-> "instance_url", accessToken |-> "access_token"])

\* A token exchange that connects to the configured instance URL.
OnTokenResponseConfigUrl(r) ==
  IF ~r.body.parsable THEN Rejected("Failed to parse OAuth response")
  ELSE IF r.status # 200 THEN Rejected(OAuthFailed(r.body))
  ELSE Resolved([instanceUrl |-> "config.instanceUrl", accessToken |-> r.body.access_token])

\* res.on('end') of the token request and the Connection built from the
\* parsed body (index.ts:119-147, connection.ts:48-66).
OnTokenResponse(r) ==
  IF ~r.body.parsable THEN Rejected("Failed to parse OAuth response")
  ELSE IF r.status # 200 THEN Rejected(OAuthFailed(r.body))
  ELSE Resolved([instanceUrl |-> r.body.instance_url, accessToken |-> r.body.access_token])

\* How the network can end the pending token exchange / login: a response,
\* req.on('error'), the socket timeout of the monolithic request; for the
\* password flow conn.login succeeds or fails.
LoginResponses(im, c) ==
  IF c.connectionType = "OAuth_2.0_Client_Credentials"
  THEN TokenResponses \cup {[kind |-> "error"]}
       \cup (IF im = "mono" THEN {[kind |-> "timeout"]} ELSE {})
  ELSE {[kind |-> "loginResponse", ok |-> b] : b \in BOOLEAN}

\* How the login promise settles on such an event.
OnLoginResponse(r) ==
  CASE r.kind = "tokenResponse" -> OnTokenResponse(r)
    [] r.kind = "error" -> Rejected("network error")
    [] r.kind = "timeout" -> Rejected("OAuth request timeout")
    [] r.kind = "loginResponse" ->
         IF r.ok THEN Resolved([instanceUrl |-> "loginUrl", accessToken |-> "sessionId"])
         ELSE Rejected("INVALID_LOGIN")

\* How the pending token exchange / login can settle.
LoginResults(im, c) == {OnLoginResponse(r) : r \in LoginResponses(im, c)}

\* ------------------------------------------------------------ tool surface
TOOLS ==
  {"salesforce_search_objects", "salesforce_describe_object", "salesforce_query_records",
   "salesforce_aggregate_query", "salesforce_dml_records", "salesforce_manage_object",
   "salesforce_manage_field", "salesforce_manage_field_permissions", "salesforce_search_all",
   "salesforce_read_apex", "salesforce_write_apex", "salesforce_read_apex_trigger",
   "salesforce_write_apex_trigger", "salesforce_execute_anonymous",
   "salesforce_manage_debug_logs"}

\* A switch that lacks the case of one listed tool.
SwitchCasesShort == TOOLS \ {"salesforce_manage_debug_logs"}

\* The case labels of the switch of handleToolCall (index.ts:433-462).
SwitchCases ==
  {"salesforce_search_objects", "salesforce_describe_object", "salesforce_query_records",
   "salesforce_aggregate_query", "salesforce_dml_records", "salesforce_manage_object",
   "salesforce_manage_field", "salesforce_manage_field_permissions", "salesforce_search_all",
   "salesforce_read_apex", "salesforce_write_apex", "salesforce_read_apex_trigger",
   "salesforce_write_apex_trigger", "salesforce_execute_anonymous",
   "salesforce_manage_debug_logs"}

\* The keys of the modular toolRegistry (part_002:30-286): the names of the
\* fifteen tool definitions.
toolRegistry ==
  {"salesforce_search_objects", "salesforce_describe_object", "salesforce_query_records",
   "salesforce_aggregate_query", "salesforce_dml_records", "salesforce_manage_object",
   "salesforce_manage_field", "salesforce_manage_field_permissions", "salesforce_search_all",
   "salesforce_read_apex", "salesforce_write_apex", "salesforce_read_apex_trigger",
   "salesforce_write_apex_trigger", "salesforce_execute_anonymous",
   "salesforce_manage_debug_logs"}

\* The ListToolsRequestSchema handlers (index.ts:1103-1105, part_002:301-303):
\* the names of the definitions returned.
ListTools(im) == IF im = "mono" THEN TOOLS ELSE toolRegistry

\* A name outside the tool surface, as a caller may send.
OtherToolNames == {"salesforce_no_such_tool"}

\* What one step of a tool's coroutine yields: its new suspended state, the
\* platform call it issued (NoCall if none), and how its promise stands.
Step(o, c, r) == [op |-> o, call |-> c, result |-> r]

PlatformError == "platform error"
Threw == [ok |-> FALSE, msg |-> PlatformError]
Answered(v) == [ok |-> TRUE, value |-> v]

\* --------------------------------------------------------------- dmlRecords
DmlOperations == {"insert", "update", "delete", "upsert"}

\* records: an array of n records, or (isArray = FALSE) a single record
\* object in place of the array.
RecordsArgs ==
  [isArray : {TRUE}, n : 0..MaxRecords] \cup [isArray : {FALSE}, n : {1}]
DmlArgs ==
  [operation : DmlOperations \cup {"merge", "absent"}, objectName : BOOLEAN,
   records : RecordsArgs, externalIdField : BOOLEAN]

\* One entry of the platform's SaveResult.
SaveError(m) == [statusCode |-> "ERR", message |-> m]
SaveResults ==
  {[success |-> TRUE, errors |-> <<>>],
   [success |-> FALSE, errors |-> <<SaveError("e1")>>],
   [success |-> FALSE, errors |-> <<SaveError("e1"), SaveError("e2")>>]}

\* An error text that keeps only the first message of an entry.
formatErrorsFirst(errors) == <<errors[1].message>>

\* formatErrors (index.ts:1046-1051) on the errors array of a SaveResult:
\* errors.map(e => e.message).join(', '), kept as the list of messages.
formatErrors(errors) == [i \in DOMAIN errors |-> errors[i].message]

\* Array.isArray(result) ? result : [result]
AsArray(raw) == IF raw.arr THEN raw.items ELSE <<raw.item>>

DmlSuccessCount(results) == Cardinality({i \in DOMAIN results : results[i].success})

\* A failure count that forgets to subtract the successes.
DmlFailedCountAll(results) == Len(results)

\* const failed = results.length - success
DmlFailedCount(results) == Len(results) - DmlSuccessCount(results)

\* The rendering of dmlRecords (index.ts:589-606).  A line is written for
\* an entry when !r.success && r.errors; errors is an array in every
\* SaveResult, and an array is truthy.
DmlRender(args, raw) ==
  LET results == AsArray(raw)
      success == DmlSuccessCount(results)
      failed == DmlFailedCount(results)
      idx == [i \in 1..Len(results) |-> i]
      bad == SelectSeq(idx, LAMBDA i : ~results[i].success)
  IN [t |-> "dml", operation |-> args.operation, success |-> success, failed |-> failed,
      lines |-> IF failed > 0
                THEN [k \in DOMAIN bad |->
                        [record |-> bad[k], msg |-> formatErrors(results[bad[k]].errors)]]
                ELSE <<>>]

\* An upsert that is issued whatever its arguments.
UpsertUnchecked(args) == TRUE

\* if (!args.externalIdField) throw ... (index.ts:584)
UpsertAllowed(args) == args.externalIdField

\* dmlRecords up to its await (index.ts:570-587).
dmlRecords(args) ==
  LET o(at) == [tool |-> "dml", at |-> at, args |-> args, answered |-> FALSE,
                result |-> [arr |-> TRUE, items |-> <<>>]]
      issue(api) ==
        Step(o("await"),
             [api |-> api, objectName |-> args.objectName,
              n |-> args.records.n, arr |-> args.records.isArray],
             Pending)
      fail(m) == Step(o("end"), NoCall, Rejected(m))
  IN CASE args.operation = "insert" -> issue("sobject.create")
       [] args.operation = "update" -> issue("sobject.update")
       [] args.operation = "delete" ->
            IF ~args.records.isArray
            THEN fail("TypeError: args.records.map is not a function")
            ELSE issue("sobject.destroy")
       [] args.operation = "upsert" ->
            IF ~UpsertAllowed(args)
            THEN fail("externalIdField required for upsert")
            ELSE issue("sobject.upsert")
       [] OTHER -> fail("TypeError: Cannot read properties of undefined (reading 'success')")

\* dmlRecords after its await.
dmlResume(o, ans) ==
  IF ans.ok
  THEN Step([o EXCEPT !.at = "end", !.answered = TRUE, !.result = ans.value], NoCall,
            Resolved(Response(DmlRender(o.args, ans.value), "absent")))
  ELSE Step([o EXCEPT !.at = "end"], NoCall, Rejected(ans.msg))

\* What the platform can answer to a DML call: one SaveResult per record
\* submitted (a single SaveResult for a single record object), or an error.
DmlAnswers(c) ==
  IF ~c.objectName THEN {Threw}
  ELSE {Threw} \cup
       (IF c.arr
        THEN {Answered([arr |-> TRUE, items |-> f]) : f \in [1..c.n -> SaveResults]}
        ELSE {Answered([arr |-> FALSE, item |-> e]) : e \in SaveResults})

DmlApis == {"sobject.create", "sobject.update", "sobject.destroy", "sobject.upsert"}

\* ------------------------------------------------------------- manageObject
\* The attributes a caller can supply, and the keys of a CustomObject
\* descriptor (nameField's members written with a dot).
ObjAttrs ==
  {"label", "pluralLabel", "description", "nameFieldLabel", "nameFieldType",
   "nameFieldFormat", "sharingModel"}
DescKeys ==
  {"fullName", "label", "pluralLabel", "description", "sharingModel", "deploymentStatus",
   "nameField.label", "nameField.type", "nameField.displayFormat"}

AttrValues(a) == IF a = "nameFieldType" THEN {"absent", "Text", "AutoNumber"} ELSE {"absent", "arg"}
Supplied(attrs) == {a \in ObjAttrs : attrs[a] # "absent"}

ManageObjectArgs ==
  [operation : {"create", "update", "delete", "absent"}, objectName : BOOLEAN,
   attrs : {f \in [ObjAttrs -> {"absent", "arg", "Text", "AutoNumber"}] :
              /\ \A a \in ObjAttrs : f[a] \in AttrValues(a)
              /\ Cardinality(Supplied(f)) <= MaxSupplied}]

\* a || b for an optional argument
OrElse(v, d) == IF v = "absent" THEN d ELSE v

\* The descriptors the platform may hold for the object, or none.
StoredDescriptor(optional) ==
  [k \in DescKeys |-> IF k \in {"description", "nameField.displayFormat"} THEN optional ELSE "cur"]
PlatformObjects ==
  {[found |-> FALSE],
   [found |-> TRUE, desc |-> StoredDescriptor("cur")],
   [found |-> TRUE, desc |-> StoredDescriptor("absent")]}

\* Array.isArray(result) ? result[0].success : result.success
MetadataSuccess(raw) == IF raw.arr THEN raw.items[1].success ELSE raw.item.success

MetadataAnswers ==
  {Threw} \cup {Answered([arr |-> FALSE, item |-> [success |-> b]]) : b \in BOOLEAN}
          \cup {Answered([arr |-> TRUE, items |-> <<[success |-> b]>>]) : b \in BOOLEAN}

\* The descriptor the monolithic manageObject builds (index.ts:610-623).
MonoObjectMetadata(args) ==
  [k \in DescKeys |->
     CASE k = "fullName" -> IF args.objectName THEN "Obj__c" ELSE "undefined__c"
       [] k = "label" -> args.attrs["label"]
       [] k = "pluralLabel" -> args.attrs["pluralLabel"]
       [] k = "nameField.label" -> OrElse(args.attrs["nameFieldLabel"], "label Name")
       [] k = "nameField.type" -> OrElse(args.attrs["nameFieldType"], "Text")
       [] k = "deploymentStatus" -> "Deployed"
       [] k = "sharingModel" -> OrElse(args.attrs["sharingModel"], "ReadWrite")
       [] k = "description" -> args.attrs["description"]
       [] k = "nameField.displayFormat" -> args.attrs["nameFieldFormat"]]

\* The monolithic manageObject up to its await (index.ts:609-625).
manageObject(args) ==
  LET o(at) == [tool |-> "manageObject", at |-> at, args |-> args]
  IN IF args.operation = "absent"
     THEN Step(o("end"), NoCall, Rejected("TypeError: conn.metadata[args.operation] is not a function"))
     ELSE Step(o("await"),
               [api |-> "metadata", method |-> args.operation, type |-> "CustomObject",
                metadata |-> MonoObjectMetadata(args)],
               Pending)

\* The monolithic manageObject after its await (index.ts:626-635).
manageObjectResume(o, ans) ==
  IF ans.ok
  THEN Step([o EXCEPT !.at = "end"], NoCall,
            Resolved(Response([t |-> "manageObject", operation |-> o.args.operation,
                               success |-> MetadataSuccess(ans.value)], "absent")))
  ELSE Step([o EXCEPT !.at = "end"], NoCall, Rejected(ans.msg))

\* The descriptor the modular manageObject creates (part_001:49-61).
ModularCreateMetadata(args) ==
  [k \in DescKeys |->
     CASE k = "fullName" -> "Obj__c"
       [] k = "label" -> OrElse(args.attrs["label"], "Obj")
       [] k = "pluralLabel" -> args.attrs["pluralLabel"]
       [] k = "nameField.type" -> OrElse(args.attrs["nameFieldType"], "Text")
       [] k = "nameField.label" -> OrElse(args.attrs["nameFieldLabel"], "Name")
       [] k = "nameField.displayFormat" ->
            IF args.attrs["nameFieldType"] = "AutoNumber"
            THEN args.attrs["nameFieldFormat"] ELSE "absent"
       [] k = "deploymentStatus" -> "Deployed"
       [] k = "sharingModel" -> args.attrs["sharingModel"]
       [] k = "description" -> args.attrs["description"]]

\* The argument that overrides a descriptor key on update, if any.
OverrideOf(k) ==
  CASE k = "label" -> "label"
    [] k = "pluralLabel" -> "pluralLabel"
    [] k = "description" -> "description"
    [] k = "sharingModel" -> "sharingModel"
    [] k = "nameField.label" -> "nameFieldLabel"
    [] k = "nameField.type" -> "nameFieldType"
    [] k = "nameField.displayFormat" -> "nameFieldFormat"
    [] OTHER -> "none"

\* The read-merge-write descriptor of the modular update (part_001:88-100).
MergeDescriptor(current, args) ==
  [k \in DescKeys |->
     IF OverrideOf(k) = "none" THEN current[k]
     ELSE OrElse(args.attrs[OverrideOf(k)], current[k])]

ObjectReply(what, isError) == Response([t |-> "manageObject", what |-> what], isError)

\* The modular manageObject up to its first await (part_001:43-78).
handleManageObject(args) ==
  LET o(at) == [tool |-> "handleManageObject", at |-> at, args |-> args]
  IN IF args.operation = "create"
     THEN Step(o("create"),
               [api |-> "metadata", method |-> "create", type |-> "CustomObject",
                metadata |-> ModularCreateMetadata(args)],
               Pending)
     ELSE Step(o("read"),
               [api |-> "metadata", method |-> "read", type |-> "CustomObject"],
               Pending)

\* The modular manageObject after an await; its own catch turns every
\* error into a reply (part_001:63-119).
handleManageObjectResume(o, ans) ==
  LET end(r) == Step([o EXCEPT !.at = "end"], NoCall, Resolved(r))
  IN IF ~ans.ok THEN end(ObjectReply("Error managing object", "true"))
     ELSE CASE o.at = "create" ->
                 IF MetadataSuccess(ans.value)
                 THEN end(ObjectReply("Successfully created", "false"))
                 ELSE end(ObjectReply("Failed to create", "true"))
            [] o.at = "read" ->
                 IF ~ans.value.found
                 THEN end(ObjectReply("not found", "true"))
                 ELSE Step([o EXCEPT !.at = "update"],
                           [api |-> "metadata", method |-> "update", type |-> "CustomObject",
                            metadata |-> MergeDescriptor(ans.value.desc, o.args)],
                           Pending)
            [] o.at = "update" ->
                 IF MetadataSuccess(ans.value)
                 THEN end(ObjectReply("Successfully updated", "false"))
                 ELSE end(ObjectReply("Failed to update", "true"))

\* What the platform can answer to a metadata call.
MetadataCallAnswers(c, stored) ==
  IF c.method = "read" THEN {Threw, Answered(stored)} ELSE MetadataAnswers

\* --------------------------------------------------- manageFieldPermissions
Profiles == 1..MaxProfiles
\* args.profileNames || ['System Administrator']; profile 0 is the default.
SystemAdministrator == [name |-> "System Administrator", id |-> 0]

\* Lists of distinct profile names.
ProfileLists ==
  UNION {{f \in [1..n -> Profiles] : \A i, j \in 1..n : i # j => f[i] # f[j]} : n \in 0..MaxProfiles}

FieldPermArgs ==
  [operation : {"view", "grant", "revoke", "absent"}, objectName : BOOLEAN,
   fieldName : {"absent", "Field", "Field__c"},
   profileNames : {[given |-> FALSE, list |-> <<>>]}
                  \cup {[given |-> TRUE, list |-> l] : l \in ProfileLists}]

\* fieldName.endsWith('__c') ? fieldName : `${fieldName}__c`
FieldApiName(fieldName) == IF fieldName = "Field__c" THEN fieldName ELSE "Field__c"

FieldPermsCreate(profile, fieldName) ==
  [api |-> "FieldPermissions.create", profile |-> profile,
   field |-> FieldApiName(fieldName)]

QueryAnswers == {Threw, Answered([n |-> 0]), Answered([n |-> 1])}
CreateAnswers == {Threw, Answered([success |-> TRUE]), Answered([success |-> FALSE])}

\* What the try/catch of grantFieldPermissions (index.ts:1058-1078) does
\* with an error of one of its platform calls: it is logged and the loop
\* goes on; nothing is rethrown to the caller.
GrantCatch(ans) == "continue"

\* grantFieldPermissions from the top of its loop at profile j
\* (index.ts:1057-1059): g is the coroutine's local state.
grantFieldPermissions(list, fieldName, j) ==
  IF j > Len(list)
  THEN [g |-> [list |-> list, fieldName |-> fieldName, j |-> j, at |-> "return"],
        call |-> NoCall, status |-> "return"]
  ELSE [g |-> [list |-> list, fieldName |-> fieldName, j |-> j, at |-> "profileQ"],
        call |-> [api |-> "query", sobject |-> "Profile", profile |-> list[j]],
        status |-> "await"]

\* grantFieldPermissions after one of its awaits (index.ts:1059-1078).
grantFieldPermissionsResume(g, ans) ==
  LET next == grantFieldPermissions(g.list, g.fieldName, g.j + 1)
      await(at, c) == [g |-> [g EXCEPT !.at = at], call |-> c, status |-> "await"]
  IN IF ~ans.ok
     THEN IF GrantCatch(ans) = "continue" THEN next
          ELSE [g |-> [g EXCEPT !.at = "threw"], call |-> NoCall, status |-> "throw"]
     ELSE CASE g.at = "profileQ" ->
                 IF ans.value.n = 0 THEN next
                 ELSE await("permSetQ", [api |-> "query", sobject |-> "PermissionSet",
                                         profile |-> g.list[g.j]])
            [] g.at = "permSetQ" ->
                 IF ans.value.n > 0
                 THEN await("create", FieldPermsCreate(g.list[g.j], g.fieldName))
                 ELSE next
            [] g.at = "create" -> next

FieldPermProfiles(args) ==
  IF args.profileNames.given THEN args.profileNames.list ELSE <<SystemAdministrator.id>>

ResultLine(kind, profile) == [kind |-> kind, profile |-> profile]
FieldPermReply(results) == Resolved(Response([t |-> "fieldPermissions", lines |-> results], "absent"))

\* The grant / revoke loop of manageFieldPermissions from profile i on
\* (index.ts:722-741), up to its next await.
RECURSIVE FieldPermLoop(_, _, _)
FieldPermLoop(args, i, results) ==
  LET profiles == FieldPermProfiles(args)
      o(at, g) == [tool |-> "manageFieldPermissions", at |-> at, args |-> args, i |-> i,
                   results |-> results, g |-> g]
  IN IF i > Len(profiles)
     THEN Step(o("end", [at |-> "none"]), NoCall, FieldPermReply(results))
     ELSE CASE args.operation = "grant" ->
                 LET r == grantFieldPermissions(<<profiles[i]>>, args.fieldName, 1)
                 IN Step(o("grant", r.g), r.call, Pending)
            [] args.operation = "revoke" ->
                 FieldPermLoop(args, i + 1, Append(results, ResultLine("Revoked from", profiles[i])))
            [] OTHER -> FieldPermLoop(args, i + 1, results)

\* manageFieldPermissions up to its first await (index.ts:694-725).
manageFieldPermissions(args) ==
  IF args.fieldName = "absent"
  THEN Step([tool |-> "manageFieldPermissions", at |-> "end", args |-> args], NoCall,
            Rejected("TypeError: Cannot read properties of undefined (reading 'endsWith')"))
  ELSE IF args.operation = "view"
  THEN Step([tool |-> "manageFieldPermissions", at |-> "view", args |-> args],
            [api |-> "query", sobject |-> "FieldPermissions",
             field |-> FieldApiName(args.fieldName)],
            Pending)
  ELSE FieldPermLoop(args, 1, <<>>)

\* manageFieldPermissions after an await (index.ts:706-733).
manageFieldPermissionsResume(o, ans) ==
  IF o.at = "view"
  THEN IF ans.ok
       THEN Step([o EXCEPT !.at = "end"], NoCall,
                 Resolved(Response([t |-> "fieldPermissionsView", n |-> ans.value.n], "absent")))
       ELSE Step([o EXCEPT !.at = "end"], NoCall, Rejected(ans.msg))
  ELSE LET r == grantFieldPermissionsResume(o.g, ans)
           profile == FieldPermProfiles(o.args)[o.i]
       IN CASE r.status = "await" -> Step([o EXCEPT !.g = r.g], r.call, Pending)
            [] r.status = "return" ->
                 FieldPermLoop(o.args, o.i + 1, Append(o.results, ResultLine("Granted to", profile)))
            [] r.status = "throw" ->
                 FieldPermLoop(o.args, o.i + 1, Append(o.results, ResultLine("Failed for", profile)))

\* --------------------------------------------------------- executeAnonymous
ExecAnonArgs == [apexCode : BOOLEAN]

\* The ExecuteAnonymousResult the platform can return: a compile failure, a
\* success, a runtime failure with or without a stack trace.
ExecuteAnonymousResults ==
  {[compiled |-> FALSE, success |-> FALSE, line |-> "line", column |-> "column",
    compileProblem |-> "compileProblem", exceptionMessage |-> "absent",
    exceptionStackTrace |-> "absent"],
   [compiled |-> TRUE, success |-> TRUE, line |-> "-1", column |-> "-1",
    compileProblem |-> "absent", exceptionMessage |-> "absent",
    exceptionStackTrace |-> "absent"]}
  \cup {[compiled |-> TRUE, success |-> FALSE, line |-> "-1", column |-> "-1",
         compileProblem |-> "absent", exceptionMessage |-> "exceptionMessage",
         exceptionStackTrace |-> st] : st \in {"absent", "exceptionStackTrace"}}

\* A rendering that looks at success before compiled.
ExecRenderSuccessFirst(result) ==
  <<[k |-> "Compilation", v |-> IF result.compiled THEN "Success" ELSE "Failed"]>> \o
  (IF result.success /\ result.compiled
   THEN <<[k |-> "Execution", v |-> "Success"]>>
   ELSE <<[k |-> "Execution", v |-> "Failed", message |-> result.exceptionMessage]>>)

\* The text executeAnonymous builds (index.ts:929-940), as its lines.
ExecRender(result) ==
  <<[k |-> "Compilation", v |-> IF result.compiled THEN "Success" ELSE "Failed"]>> \o
  (IF ~result.compiled
   THEN <<[k |-> "Error at", line |-> result.line, column |-> result.column,
           problem |-> result.compileProblem]>>
   ELSE IF result.success
   THEN <<[k |-> "Execution", v |-> "Success"]>>
   ELSE <<[k |-> "Execution", v |-> "Failed", message |-> result.exceptionMessage]>> \o
        (IF result.exceptionStackTrace # "absent"
         THEN <<[k |-> "Stack trace", trace |-> result.exceptionStackTrace]>>
         ELSE <<>>))

\* executeAnonymous up to its await (index.ts:926-927).
executeAnonymous(args) ==
  Step([tool |-> "executeAnonymous", at |-> "await", args |-> args],
       [api |-> "tooling.executeAnonymous", apexCode |-> args.apexCode], Pending)

\* executeAnonymous after its await (index.ts:929-944).
executeAnonymousResume(o, ans) ==
  IF ans.ok
  THEN Step([tool |-> "executeAnonymous", at |-> "end", args |-> o.args, result |-> ans.value],
            NoCall,
            Resolved(Response([t |-> "executeAnonymous", lines |-> ExecRender(ans.value)],
                              "absent")))
  ELSE Step([o EXCEPT !.at = "end"], NoCall, Rejected(ans.msg))

ExecAnonAnswers(c) ==
  IF c.apexCode THEN {Threw} \cup {Answered(r) : r \in ExecuteAnonymousResults} ELSE {Threw}

\* ---------------------------------------------------------- manageDebugLogs
\* expirationTime: not supplied, or a number of minutes.
ExpirationTimes ==
  {[given |-> FALSE, minutes |-> 0], [given |-> TRUE, minutes |-> 0],
   [given |-> TRUE, minutes |-> 15]}

DebugLogArgs ==
  [operation : {"enable", "disable", "retrieve", "absent"}, username : BOOLEAN,
   expirationTime : ExpirationTimes]

DefaultExpiration == 30

\* args.expirationTime || 30: undefined and 0 are falsy.
ExpirationMinutes(e) == IF ~e.given \/ e.minutes = 0 THEN DefaultExpiration ELSE e.minutes

\* expiration (index.ts:963-964): the time read by new Date(), which is the
\* origin of the model's time, plus a number of minutes.
Expiration(args) == [base |-> "now", plus |-> ExpirationMinutes(args.expirationTime)]

UserId == "user.Id"
DebugLevelId == "debugLevel.id"

DebugLevelCreate ==
  [api |-> "tooling.create", type |-> "DebugLevel"]
TraceFlagCreate(user, debugLevel, expiration) ==
  [api |-> "tooling.create", type |-> "TraceFlag", TracedEntityId |-> user,
   DebugLevelId |-> debugLevel, ExpirationDate |-> expiration]
TraceFlagDelete(k) == [api |-> "tooling.delete", type |-> "TraceFlag", flag |-> k]

\* manageDebugLogs up to its first await (index.ts:947-953).
manageDebugLogs(args) ==
  Step([tool |-> "manageDebugLogs", at |-> "user", args |-> args, n |-> 0, k |-> 0],
       [api |-> "query", sobject |-> "User", username |-> args.username], Pending)

DebugLogReply(what, n) == Resolved(Response([t |-> "debugLogs", what |-> what, n |-> n], "absent"))

DisableFirstOnly(o, n, k) ==
  IF k > n \/ k > 1
  THEN Step([o EXCEPT !.at = "end", !.n = n, !.k = k], NoCall, DebugLogReply("Disabled", n))
  ELSE Step([o EXCEPT !.at = "delete", !.n = n, !.k = k], TraceFlagDelete(k), Pending)

\* The disable loop from flag k on (index.ts:998-1007).
DisableLoop(o, n, k) ==
  IF k > n
  THEN Step([o EXCEPT !.at = "end", !.n = n, !.k = k], NoCall, DebugLogReply("Disabled", n))
  ELSE Step([o EXCEPT !.at = "delete", !.n = n, !.k = k], TraceFlagDelete(k), Pending)

\* manageDebugLogs after an await (index.ts:955-1033).
manageDebugLogsResume(o, ans) ==
  LET fail(m) == Step([o EXCEPT !.at = "end"], NoCall, Rejected(m))
      await(at, c) == Step([o EXCEPT !.at = at], c, Pending)
  IN IF ~ans.ok THEN fail(ans.msg)
     ELSE CASE o.at = "user" ->
                 IF ans.value.n = 0 THEN fail("User not found")
                 ELSE CASE o.args.operation = "enable" -> await("debugLevel", DebugLevelCreate)
                        [] o.args.operation = "disable" ->
                             await("traceFlags", [api |-> "tooling.query", sobject |-> "TraceFlag",
                                                  TracedEntityId |-> UserId])
                        [] o.args.operation = "retrieve" ->
                             await("logs", [api |-> "tooling.query", sobject |-> "ApexLog",
                                            TracedEntityId |-> UserId])
                        [] OTHER -> fail("Invalid operation")
            [] o.at = "debugLevel" ->
                 await("traceFlag", TraceFlagCreate(UserId, ans.value.id, Expiration(o.args)))
            [] o.at = "traceFlag" ->
                 Step([o EXCEPT !.at = "end"], NoCall,
                      Resolved(Response([t |-> "debugLogs", what |-> "Enabled",
                                         until |-> Expiration(o.args)], "absent")))
            [] o.at = "traceFlags" -> DisableLoop(o, ans.value.n, 1)
            [] o.at = "delete" -> DisableLoop(o, o.n, o.k + 1)
            [] o.at = "logs" ->
                 Step([o EXCEPT !.at = "end", !.n = ans.value.n], NoCall,
                      DebugLogReply("Found logs", ans.value.n))

\* What the tooling API can answer to a create, a query, a delete.
ToolingAnswers(c) ==
  CASE c.api = "tooling.create" ->
         {Threw, Answered([success |-> TRUE,
                           id |-> IF c.type = "DebugLevel" THEN DebugLevelId ELSE "traceFlag.id"])}
    [] c.api = "tooling.query" -> {Threw} \cup {Answered([n |-> n]) : n \in 0..MaxFlags}
    [] c.api = "tooling.delete" -> {Threw, Answered([success |-> TRUE])}

\* ------------------------------------------------------------- queryRecords
\* JavaScript values of a result row: null, undefined, a scalar, or a
\* related record with its own fields.
Null == [k |-> "null"]
Undefined == [k |-> "undefined"]
Scalar(v) == [k |-> "scalar", v |-> v]
Rec(f) == [k |-> "record", f |-> f]

\* The rows the platform may return: all relationships present, the second
\* relationship of a path absent, the first relationship and a value absent.
QueryRows ==
  {Rec([Name |-> Scalar("Acme"),
        Account |-> Rec([Name |-> Scalar("Parent"), Owner |-> Rec([Name |-> Scalar("Owner")])])]),
   Rec([Name |-> Scalar("Beta"),
        Account |-> Rec([Name |-> Scalar("Parent"), Owner |-> Null])]),
   Rec([Name |-> Null, Account |-> Null])}

\* The field paths a caller may request; a dotted path is written as the
\* list of its parts, which is what path.split('.') makes of it.
FieldPaths == {<<"Name">>, <<"Account", "Name">>, <<"Account", "Owner", "Name">>}

\* Lists of distinct field paths, in the caller's order.
FieldLists ==
  UNION {{f \in [1..n -> FieldPaths] : \A i, j \in 1..n : i # j => f[i] # f[j]} :
           n \in 1..MaxFields}

\* fields: an array of paths, or (isArray = FALSE) not an array.
QueryArgs ==
  {[objectName |-> TRUE, fields |-> [isArray |-> TRUE, list |-> l]] : l \in FieldLists}
  \cup {[objectName |-> FALSE, fields |-> [isArray |-> TRUE, list |-> <<<<"Name">>>>]],
        [objectName |-> TRUE, fields |-> [isArray |-> FALSE, list |-> <<>>]]}

\* value?.[part]
Get(value, part) ==
  IF value.k = "record" /\ part \in DOMAIN value.f THEN value.f[part] ELSE Undefined

\* A lookup of the last part of the path in the row itself.
getNestedValueFlat(obj, path) == Get(obj, path[Len(path)])

\* getNestedValue (index.ts:1037-1044)
RECURSIVE getNestedValueFrom(_, _, _)
getNestedValueFrom(value, path, i) ==
  IF i > Len(path) THEN value ELSE getNestedValueFrom(Get(value, path[i]), path, i + 1)
getNestedValue(obj, path) == getNestedValueFrom(obj, path, 1)

\* `${value !== null && value !== undefined ? value : 'null'}`
RenderValue(value) ==
  CASE value.k \in {"null", "undefined"} -> "null"
    [] value.k = "scalar" -> value.v
    [] OTHER -> "[object Object]"

\* The text of queryRecords (index.ts:526-538): the count, then one block
\* per row with one line per requested field.
QueryRender(fields, rows) ==
  [t |-> "query", count |-> Len(rows),
   blocks |-> [i \in 1..Len(rows) |->
                 [record |-> i,
                  lines |-> [j \in 1..Len(fields) |->
                               [field |-> fields[j],
                                value |-> RenderValue(getNestedValue(rows[i], fields[j]))]]]]]

\* queryRecords up to its await (index.ts:518-524).
queryRecords(args) ==
  IF ~args.fields.isArray
  THEN Step([tool |-> "queryRecords", at |-> "end", args |-> args, rows |-> <<>>], NoCall,
            Rejected("TypeError: args.fields.join is not a function"))
  ELSE Step([tool |-> "queryRecords", at |-> "await", args |-> args, rows |-> <<>>],
            [api |-> "soql", objectName |-> args.objectName, fields |-> args.fields.list],
            Pending)

\* queryRecords after its await (index.ts:526-539).
queryRecordsResume(o, ans) ==
  IF ans.ok
  THEN Step([o EXCEPT !.at = "end", !.rows = ans.value.records], NoCall,
            Resolved(Response(QueryRender(o.args.fields.list, ans.value.records), "absent")))
  ELSE Step([o EXCEPT !.at = "end"], NoCall, Rejected(ans.msg))

\* What conn.query can answer: up to MaxRows rows, or an error.
SoqlAnswers(c) ==
  IF ~c.objectName THEN {Threw}
  ELSE {Threw} \cup
       UNION {{Answered([records |-> rs]) : rs \in [1..n -> QueryRows]} : n \in 0..MaxRows}

\* ----------------------------------------------------------- aggregateQuery
\* A select-field split at its spaces: field.split(' ')[0] and
\* field.split(' ').pop(), which are the same for a field without alias.
SelectField(base, alias) == [base |-> base, alias |-> alias]
SumTotal == SelectField("SUM(Amount)", "total")
Industry == SelectField("Industry", "Industry")

\* selectFields: an array of select-fields, or not an array.
AggregateArgs ==
  {[objectName |-> TRUE, groupByFields |-> TRUE, selectFields |-> [isArray |-> TRUE, list |-> l]] :
     l \in {<<SumTotal>>, <<Industry, SumTotal>>}}
  \cup {[objectName |-> TRUE, groupByFields |-> TRUE,
         selectFields |-> [isArray |-> FALSE, list |-> <<>>]],
        [objectName |-> TRUE, groupByFields |-> FALSE,
         selectFields |-> [isArray |-> TRUE, list |-> <<SumTotal>>]],
        [objectName |-> FALSE, groupByFields |-> TRUE,
         selectFields |-> [isArray |-> TRUE, list |-> <<SumTotal>>]]}

\* A result group: its value under the alias, under the bare aggregate
\* expression, and under the grouping field.  "0" is the number 0.
Group(total, bare, industry) ==
  Rec([k \in {"total", "SUM(Amount)", "Industry"} |->
         CASE k = "total" -> total [] k = "SUM(Amount)" -> bare [] OTHER -> industry])
AggregateGroups ==
  {Group(Scalar("5"), Undefined, Scalar("Tech")),
   Group(Scalar("0"), Undefined, Scalar("Tech")),
   Group(Null, Undefined, Null),
   Group(Undefined, Scalar("7"), Scalar("Tech"))}

\* JavaScript truthiness of a value: null, undefined, 0, '' and false are
\* falsy.
Truthy(value) ==
  value.k = "record" \/ (value.k = "scalar" /\ value.v \notin {"0", "", "false"})

\* record[alias] || record[baseField]
AliasOrBase(record, field) ==
  IF Truthy(Get(record, field.alias)) THEN Get(record, field.alias)
  ELSE Get(record, field.base)

\* The text of aggregateQuery (index.ts:552-566).
AggregateRender(fields, groups) ==
  [t |-> "aggregate", count |-> Len(groups),
   blocks |-> [i \in 1..Len(groups) |->
                 [group |-> i,
                  lines |-> [j \in 1..Len(fields) |->
                               [alias |-> fields[j].alias,
                                value |-> RenderValue(AliasOrBase(groups[i], fields[j]))]]]]]

\* aggregateQuery up to its await (index.ts:542-550).
aggregateQuery(args) ==
  LET o(at) == [tool |-> "aggregateQuery", at |-> at, args |-> args, groups |-> <<>>]
  IN IF ~args.selectFields.isArray
     THEN Step(o("end"), NoCall, Rejected("TypeError: args.selectFields.join is not a function"))
     ELSE IF ~args.groupByFields
     THEN Step(o("end"), NoCall, Rejected("TypeError: args.groupByFields.join is not a function"))
     ELSE Step(o("await"),
               [api |-> "soql.aggregate", objectName |-> args.objectName,
                fields |-> args.selectFields.list],
               Pending)

\* aggregateQuery after its await (index.ts:552-567).
aggregateQueryResume(o, ans) ==
  IF ans.ok
  THEN Step([o EXCEPT !.at = "end", !.groups = ans.value.records], NoCall,
            Resolved(Response(AggregateRender(o.args.selectFields.list, ans.value.records),
                              "absent")))
  ELSE Step([o EXCEPT !.at = "end"], NoCall, Rejected(ans.msg))

\* What conn.query can answer to the aggregate query.
AggregateAnswers(c) ==
  IF ~c.objectName THEN {Threw}
  ELSE {Threw} \cup
       UNION {{Answered([records |-> gs]) : gs \in [1..n -> AggregateGroups]} : n \in 0..MaxGroups}

\* -------------------------------------------------------------- manageField
\* The lists of profile names given as grantAccessTo.
GrantLists == {[i \in 1..n |-> i] : n \in 0..MaxProfiles}
NotGiven == [given |-> FALSE, list |-> <<>>]

\* The arguments of manageField: fieldName as a string or missing, the
\* optional arguments as supplied or not.
PlainField ==
  [operation |-> "create", objectName |-> TRUE, fieldName |-> "Field", type |-> "Text",
   referenceTo |-> FALSE, relationshipName |-> FALSE, relationshipLabel |-> FALSE,
   deleteConstraint |-> FALSE, picklistValues |-> FALSE, grantAccessTo |-> NotGiven]
ManageFieldArgs ==
  {[PlainField EXCEPT !.operation = o, !.fieldName = f] :
     o \in {"create", "update", "delete", "absent"}, f \in {"Field", "absent"}}
  \cup {[PlainField EXCEPT !.operation = o, !.fieldName = f,
                           !.grantAccessTo = [given |-> TRUE, list |-> l]] :
          o \in {"create", "update"}, f \in {"Field", "Field__c"}, l \in GrantLists}
  \cup {[PlainField EXCEPT !.type = t, !.referenceTo = r[1], !.relationshipName = r[2],
                           !.relationshipLabel = r[3], !.deleteConstraint = r[2],
                           !.picklistValues = p] :
          t \in {"Text", "Lookup"}, p \in BOOLEAN,
          r \in {<<FALSE, FALSE, FALSE>>, <<TRUE, TRUE, TRUE>>, <<TRUE, TRUE, FALSE>>,
                 <<FALSE, TRUE, TRUE>>}}

\* `${fieldName}__c`
CustomSuffix(fieldName) ==
  CASE fieldName = "Field" -> "Field__c"
    [] fieldName = "Field__c" -> "Field__c__c"
    [] OTHER -> "undefined__c"

\* `${objectName}.${fieldApiName}`
FullName(fieldApiName) ==
  CASE fieldApiName = "Field__c" -> "Obj.Field__c"
    [] fieldApiName = "Field__c__c" -> "Obj.Field__c__c"
    [] OTHER -> "Obj.undefined__c"

\* The descriptor manageField builds (index.ts:639-674); a key the code
\* does not set is "absent".
ManageFieldMetadata(args) ==
  [fullName |-> FullName(CustomSuffix(args.fieldName)),
   type |-> args.type,
   referenceTo |-> IF args.referenceTo THEN "Account" ELSE "absent",
   relationshipName |->
     IF args.referenceTo THEN (IF args.relationshipName THEN "Rel" ELSE "undefined")
     ELSE "absent",
   relationshipLabel |->
     IF args.referenceTo
     THEN (IF args.relationshipLabel THEN "Label"
           ELSE IF args.relationshipName THEN "Rel" ELSE "undefined")
     ELSE "absent",
   deleteConstraint |-> IF args.referenceTo /\ args.deleteConstraint THEN "SetNull" ELSE "absent",
   valueSet |-> IF args.picklistValues THEN "valueSetDefinition" ELSE "absent"]

GrantAfterAnyOperation(args, success) == success /\ args.grantAccessTo.given

\* success && args.operation === 'create' && args.grantAccessTo
GrantAfterCreate(args, success) ==
  success /\ args.operation = "create" /\ args.grantAccessTo.given

FieldReply(args, success, granted) ==
  Resolved(Response([t |-> "manageField", operation |-> args.operation, success |-> success,
                     granted |-> granted], "absent"))

\* manageField up to its first await (index.ts:638-676).
manageField(args) ==
  LET o(at) == [tool |-> "manageField", at |-> at, args |-> args,
                metadata |-> ManageFieldMetadata(args), success |-> FALSE,
                g |-> [at |-> "none"]]
  IN IF args.operation = "absent"
     THEN Step(o("end"), NoCall, Rejected("TypeError: conn.metadata[args.operation] is not a function"))
     ELSE Step(o("await"),
               [api |-> "metadata", method |-> args.operation, type |-> "CustomField",
                metadata |-> ManageFieldMetadata(args)],
               Pending)

\* manageField after an await (index.ts:677-691).
manageFieldResume(o, ans) ==
  LET end(oo, p) == Step([oo EXCEPT !.at = "end"], NoCall, p)
      chain(oo, r) ==
        CASE r.status = "await" -> Step([oo EXCEPT !.at = "grant", !.g = r.g], r.call, Pending)
          [] r.status = "return" ->
               end([oo EXCEPT !.g = r.g], FieldReply(oo.args, oo.success, TRUE))
          [] r.status = "throw" -> end([oo EXCEPT !.g = r.g], Rejected("grant failed"))
  IN IF o.at = "await"
     THEN IF ~ans.ok THEN end(o, Rejected(ans.msg))
          ELSE LET success == MetadataSuccess(ans.value)
                   oo == [o EXCEPT !.success = success]
               IN IF ~GrantAfterCreate(o.args, success)
                  THEN end(oo, FieldReply(o.args, success, FALSE))
                  ELSE IF o.args.fieldName = "absent"
                  THEN end(oo, Rejected("TypeError: Cannot read properties of undefined (reading 'endsWith')"))
                  ELSE chain(oo, grantFieldPermissions(o.args.grantAccessTo.list,
                                                       o.args.fieldName, 1))
     ELSE chain(o, grantFieldPermissionsResume(o.g, ans))

\* ------------------------------------------------ writeApex, writeApexTrigger
\* The arguments of writeApex: the class name and the body as supplied or
\* not.
WriteApexArgs ==
  {[operation |-> o, name |-> nb[1], body |-> nb[2]] :
     o \in {"create", "update", "absent"},
     nb \in {<<TRUE, TRUE>>, <<FALSE, TRUE>>, <<TRUE, FALSE>>}}

\* The arguments of writeApexTrigger: the object of the trigger besides.
WriteApexTriggerArgs ==
  {[operation |-> a.operation, name |-> a.name, body |-> a.body, objectName |-> ob] :
     a \in WriteApexArgs, ob \in BOOLEAN}

\* An argument as the string it is, or undefined.
ArgValue(supplied, value) == IF supplied THEN value ELSE "undefined"

\* The identifiers the platform gives to Apex classes and triggers.
ApexIds == 1..MaxFound

LastId(records) == records[Len(records)].Id

\* existing.records[0].Id
ResolvedId(records) == records[1].Id

ApexLookup(sobject, args) ==
  [api |-> "apex.query", sobject |-> sobject, Name |-> ArgValue(args.name, "Name")]
ApexCreate(sobject, args, withTable) ==
  [api |-> "apex.create", sobject |-> sobject,
   record |-> IF withTable
              THEN [Name |-> ArgValue(args.name, "Name"), Body |-> ArgValue(args.body, "Body"),
                    ApiVersion |-> "apiVersion", Status |-> "Active",
                    TableEnumOrId |-> "Obj"]
              ELSE [Name |-> ArgValue(args.name, "Name"), Body |-> ArgValue(args.body, "Body"),
                    ApiVersion |-> "apiVersion", Status |-> "Active"]]
ApexUpdate(sobject, args, records) ==
  [api |-> "apex.update", sobject |-> sobject,
   record |-> [Id |-> ResolvedId(records), Body |-> ArgValue(args.body, "Body")]]

ApexReply(what, sobject) ==
  Resolved(Response([t |-> "writeApex", what |-> what, sobject |-> sobject], "absent"))

\* writeApex up to its first await (index.ts:812-829).
writeApex(args) ==
  LET o(at) == [tool |-> "writeApex", at |-> at, args |-> args, sobject |-> "ApexClass",
                looked |-> FALSE, records |-> <<>>]
  IN IF args.operation = "create"
     THEN Step(o("create"), ApexCreate("ApexClass", args, FALSE), Pending)
     ELSE Step(o("lookup"), ApexLookup("ApexClass", args), Pending)

\* writeApexTrigger up to its first await (index.ts:884-907).
writeApexTrigger(args) ==
  LET o(at) == [tool |-> "writeApexTrigger", at |-> at, args |-> args,
                sobject |-> "ApexTrigger", looked |-> FALSE, records |-> <<>>]
  IN IF args.operation = "create"
     THEN IF ~args.objectName
          THEN Step(o("end"), NoCall, Rejected("objectName required for create"))
          ELSE Step(o("create"), ApexCreate("ApexTrigger", args, TRUE), Pending)
     ELSE Step(o("lookup"), ApexLookup("ApexTrigger", args), Pending)

\* writeApex and writeApexTrigger after an await (index.ts:821-845,
\* 899-923).
writeApexResume(o, ans) ==
  LET end(oo, p) == Step([oo EXCEPT !.at = "end"], NoCall, p)
  IN IF ~ans.ok THEN end(o, Rejected(ans.msg))
     ELSE CASE o.at = "create" -> end(o, ApexReply("Created", o.sobject))
            [] o.at = "lookup" ->
                 LET oo == [o EXCEPT !.looked = TRUE, !.records = ans.value.records]
                 IN IF Len(ans.value.records) = 0
                    THEN end(oo, Rejected(IF o.sobject = "ApexClass" THEN "Class not found"
                                          ELSE "Trigger not found"))
                    ELSE Step([oo EXCEPT !.at = "update"],
                              ApexUpdate(o.sobject, o.args, ans.value.records), Pending)
            [] o.at = "update" -> end(o, ApexReply("Updated", o.sobject))

\* What the platform can answer to the calls of writeApex.
ApexAnswers(c) ==
  CASE c.api = "apex.query" ->
         {Threw} \cup
         UNION {{Answered([records |-> [i \in 1..n |-> [Id |-> ids[i]]]]) :
                   ids \in [1..n -> ApexIds]} : n \in 0..MaxFound}
    [] c.api = "apex.create" -> {Threw, Answered([success |-> TRUE, id |-> 1])}
    [] c.api = "apex.update" -> {Threw, Answered([success |-> TRUE])}

\* ---------------------------------------------------------------- searchAll
\* A requested object: its name as the caller wrote it and its field list.
SearchObject(name) == [name |-> name, fields |-> <<"Name">>]

\* args.objects: an array of requested objects, or missing.
ObjectLists ==
  {<<SearchObject("Account")>>, <<SearchObject("account")>>,
   <<SearchObject("Account"), SearchObject("Contact")>>,
   <<SearchObject("Contact"), SearchObject("Account")>>,
   <<SearchObject("Account"), SearchObject("Account")>>}
SearchAllArgs ==
  {[searchTerm |-> TRUE, objects |-> [isArray |-> TRUE, list |-> l]] : l \in ObjectLists}
  \cup {[searchTerm |-> TRUE, objects |-> [isArray |-> FALSE, list |-> <<>>]],
        [searchTerm |-> FALSE, objects |-> [isArray |-> TRUE, list |-> <<SearchObject("Account")>>]]}

\* The platform's name of an object: names in a search are matched without
\* regard to case, the type tag of a result is the platform's own spelling.
ApiName(name) == IF name = "account" THEN "Account" ELSE name

\* A record of the flat result: its type tag, its field, and its place in
\* the result set.
SearchRecord(type, at) == [attributes |-> [type |-> type], Name |-> Scalar("name"), at |-> at]

\* record[field] || 'null'
FieldOrNull(record, field) ==
  IF Truthy(record[field]) THEN record[field].v ELSE "null"

\* result.searchRecords.filter(r => r.attributes.type === obj.name)
RecordsOf(searchRecords, obj) ==
  SelectSeq(searchRecords, LAMBDA r : r.attributes.type = obj.name)

\* The text of searchAll (index.ts:756-769): a group per requested object.
SearchRender(objects, searchRecords) ==
  [t |-> "search",
   groups |-> [i \in 1..Len(objects) |->
                 LET records == RecordsOf(searchRecords, objects[i])
                 IN [name |-> objects[i].name, count |-> Len(records),
                     records |-> [j \in 1..Len(records) |->
                                    [idx |-> j, of |-> records[j].at,
                                     lines |-> [f \in 1..Len(objects[i].fields) |->
                                                  [field |-> objects[i].fields[f],
                                                   value |-> FieldOrNull(records[j],
                                                                         objects[i].fields[f])]]]]]]]

\* searchAll up to its await (index.ts:744-754).
searchAll(args) ==
  LET o(at) == [tool |-> "searchAll", at |-> at, args |-> args, searchRecords |-> <<>>]
  IN IF ~args.objects.isArray
     THEN Step(o("end"), NoCall,
               Rejected("TypeError: Cannot read properties of undefined (reading 'map')"))
     ELSE Step(o("await"),
               [api |-> "search", searchTerm |-> args.searchTerm,
                returning |-> [i \in 1..Len(args.objects.list) |-> args.objects.list[i].name]],
               Pending)

\* searchAll after its await (index.ts:756-770).
searchAllResume(o, ans) ==
  IF ans.ok
  THEN Step([o EXCEPT !.at = "end", !.searchRecords = ans.value.searchRecords], NoCall,
            Resolved(Response(SearchRender(o.args.objects.list, ans.value.searchRecords),
                              "absent")))
  ELSE Step([o EXCEPT !.at = "end"], NoCall, Rejected(ans.msg))

\* What conn.search can answer: an error (always so without a search term
\* or with an object named twice), or records of the requested objects,
\* interleaved in any order.
SearchAnswers(c) ==
  LET types == {ApiName(c.returning[i]) : i \in DOMAIN c.returning}
  IN IF ~c.searchTerm \/ Cardinality(types) < Len(c.returning) THEN {Threw}
     ELSE {Threw} \cup
          UNION {{Answered([searchRecords |-> [i \in 1..n |-> SearchRecord(tags[i], i)]]) :
                    tags \in [1..n -> types]} : n \in 0..MaxHits}

\* ------------------------------------------------- the single-call tools
\* The tools not modelled call by call: one platform call, then a rendering
\* of its answer or its error.  reqOk: the arguments the tool requires are
\* present and of the right coarse type.
GenericArgs == [reqOk : BOOLEAN]

\* Tools that dereference a required argument before their first platform
\* call.
SyncThrowTools == {}

\* Tools whose schema requires no argument.
NoRequiredArgs == {"salesforce_read_apex", "salesforce_read_apex_trigger"}

singleCallTool(name, args) ==
  IF ~args.reqOk /\ name \in SyncThrowTools
  THEN Step([tool |-> name, at |-> "end", args |-> args], NoCall,
            Rejected("TypeError: Cannot read properties of undefined"))
  ELSE Step([tool |-> name, at |-> "await", args |-> args],
            [api |-> "call", tool |-> name, reqOk |-> args.reqOk], Pending)

singleCallResume(o, ans) ==
  IF ans.ok
  THEN Step([o EXCEPT !.at = "end"], NoCall,
            Resolved(Response([t |-> "result", tool |-> o.tool], "absent")))
  ELSE Step([o EXCEPT !.at = "end"], NoCall, Rejected(ans.msg))

\* ------------------------------------------------------------ the requests
ArgsOf(name) ==
  CASE name = "salesforce_dml_records" -> DmlArgs
    [] name = "salesforce_manage_object" -> ManageObjectArgs
    [] name = "salesforce_manage_field_permissions" -> FieldPermArgs
    [] name = "salesforce_execute_anonymous" -> ExecAnonArgs
    [] name = "salesforce_manage_debug_logs" -> DebugLogArgs
    [] name = "salesforce_query_records" -> QueryArgs
    [] name = "salesforce_aggregate_query" -> AggregateArgs
    [] name = "salesforce_manage_field" -> ManageFieldArgs
    [] name = "salesforce_write_apex" -> WriteApexArgs
    [] name = "salesforce_write_apex_trigger" -> WriteApexTriggerArgs
    [] name = "salesforce_search_all" -> SearchAllArgs
    [] name \in NoRequiredArgs \cup OtherToolNames -> {[reqOk |-> TRUE]}
    [] OTHER -> GenericArgs

NoArgs == [reqOk |-> FALSE]

\* request.params: {name, arguments}
Requests ==
  {[name |-> n, hasArgs |-> FALSE, args |-> NoArgs] : n \in TOOLS \cup OtherToolNames}
  \cup UNION {{[name |-> n, hasArgs |-> TRUE, args |-> a] : a \in ArgsOf(n)} :
                n \in TOOLS \cup OtherToolNames}

\* The required-argument check of a registry handler (part_002:33-285).
Validate(name, args) ==
  CASE name = "salesforce_dml_records" ->
         args.operation # "absent" /\ args.objectName /\ args.records.isArray
    [] name = "salesforce_manage_object" -> args.operation # "absent" /\ args.objectName
    [] name = "salesforce_manage_field_permissions" ->
         args.operation # "absent" /\ args.objectName /\ args.fieldName # "absent"
    [] name = "salesforce_execute_anonymous" -> args.apexCode
    [] name = "salesforce_manage_debug_logs" -> args.operation # "absent" /\ args.username
    [] name = "salesforce_query_records" -> args.objectName /\ args.fields.isArray
    [] name = "salesforce_aggregate_query" ->
         args.objectName /\ args.selectFields.isArray /\ args.groupByFields
    [] name = "salesforce_manage_field" ->
         args.operation # "absent" /\ args.objectName /\ args.fieldName # "absent"
    [] name \in {"salesforce_write_apex", "salesforce_write_apex_trigger"} ->
         args.operation # "absent" /\ args.name /\ args.body
    [] name = "salesforce_search_all" -> args.searchTerm /\ args.objects.isArray
    [] name \in NoRequiredArgs -> TRUE
    [] OTHER -> args.reqOk

\* The tool functions of the monolithic server, as the switch of
\* handleToolCall selects them (index.ts:432-462).
toolFunction(name, args) ==
  CASE name = "salesforce_dml_records" -> dmlRecords(args)
    [] name = "salesforce_manage_object" -> manageObject(args)
    [] name = "salesforce_manage_field_permissions" -> manageFieldPermissions(args)
    [] name = "salesforce_execute_anonymous" -> executeAnonymous(args)
    [] name = "salesforce_manage_debug_logs" -> manageDebugLogs(args)
    [] name = "salesforce_query_records" -> queryRecords(args)
    [] name = "salesforce_aggregate_query" -> aggregateQuery(args)
    [] name = "salesforce_manage_field" -> manageField(args)
    [] name = "salesforce_write_apex" -> writeApex(args)
    [] name = "salesforce_write_apex_trigger" -> writeApexTrigger(args)
    [] name = "salesforce_search_all" -> searchAll(args)
    [] OTHER -> singleCallTool(name, args)

\* The reply of a specified tool: the uniform shape, isError included.
SpecifiedReply(p) ==
  IF p.st = "resolved" /\ p.v.isError = "absent"
  THEN Resolved([p.v EXCEPT !.isError = "false"]) ELSE p

\* The modular tool modules other than manageObject (tools/*.js) are not
\* part of the sources at hand; they are taken to behave as the specified
\* tool does: the same platform calls and text, in the uniform reply shape.
handleTool(name, args) ==
  LET s == toolFunction(name, args) IN [s EXCEPT !.result = SpecifiedReply(@)]

\* toolRegistry[name].handler (part_002:30-286): narrow the arguments, then
\* run the tool module.
registryHandler(name, args) ==
  IF ~Validate(name, args)
  THEN Step([tool |-> name, at |-> "end", args |-> args], NoCall,
            Rejected("required arguments are missing"))
  ELSE IF name = "salesforce_manage_object" THEN handleManageObject(args)
  ELSE handleTool(name, args)

\* A suspended tool resumed with the platform's answer.
Resume(o, ans) ==
  CASE o.tool = "dml" -> dmlResume(o, ans)
    [] o.tool = "manageObject" -> manageObjectResume(o, ans)
    [] o.tool = "handleManageObject" -> handleManageObjectResume(o, ans)
    [] o.tool = "manageFieldPermissions" -> manageFieldPermissionsResume(o, ans)
    [] o.tool = "executeAnonymous" -> executeAnonymousResume(o, ans)
    [] o.tool = "manageDebugLogs" -> manageDebugLogsResume(o, ans)
    [] o.tool = "queryRecords" -> queryRecordsResume(o, ans)
    [] o.tool = "aggregateQuery" -> aggregateQueryResume(o, ans)
    [] o.tool = "manageField" -> manageFieldResume(o, ans)
    [] o.tool \in {"writeApex", "writeApexTrigger"} -> writeApexResume(o, ans)
    [] o.tool = "searchAll" -> searchAllResume(o, ans)
    [] OTHER -> singleCallResume(o, ans)

\* A tool module of the modular server resumed.
handleToolResume(o, ans) ==
  LET s == Resume(o, ans)
  IN IF o.tool = "handleManageObject" THEN s ELSE [s EXCEPT !.result = SpecifiedReply(@)]

\* What the platform can answer to a call in flight.
Answers(c, stored) ==
  CASE c.api \in DmlApis -> DmlAnswers(c)
    [] c.api = "metadata" -> MetadataCallAnswers(c, stored)
    [] c.api = "query" -> QueryAnswers
    [] c.api = "FieldPermissions.create" -> CreateAnswers
    [] c.api = "tooling.executeAnonymous" -> ExecAnonAnswers(c)
    [] c.api = "soql" -> SoqlAnswers(c)
    [] c.api \in {"tooling.create", "tooling.query", "tooling.delete"} -> ToolingAnswers(c)
    [] c.api = "soql.aggregate" -> AggregateAnswers(c)
    [] c.api \in {"apex.query", "apex.create", "apex.update"} -> ApexAnswers(c)
    [] c.api = "search" -> SearchAnswers(c)
    [] c.api = "call" -> IF c.reqOk THEN {Threw, Answered([t |-> "data"])} ELSE {Threw}
    [] OTHER -> {}

\* Whether the platform, answering ans to call c, has changed its data.
Mutates(c, ans) ==
  /\ ans.ok
  /\ CASE c.api \in DmlApis ->
            LET rs == AsArray(ans.value) IN \E i \in DOMAIN rs : rs[i].success
       [] c.api = "metadata" -> c.method # "read" /\ MetadataSuccess(ans.value)
       [] c.api = "FieldPermissions.create" -> ans.value.success
       [] c.api \in {"tooling.create", "tooling.delete"} -> ans.value.success
       [] c.api \in {"apex.create", "apex.update"} -> ans.value.success
       [] OTHER -> FALSE

\* ------------------------------------------------------ the request handler
\* The reply built from a settled promise: the tool's own reply, or the
\* catch of handleToolCall (index.ts:466-475) / of the modular handler
\* (part_002:320-328).
Respond(p) == IF p.st = "resolved" THEN p.v ELSE Response(ErrorText(p.msg), "true")

\* executeWithTimeout (index.ts:413-423): Promise.race of the tool's promise
\* and the timer's; the state of the race when the handler starts to await.
executeWithTimeout(promise) == RaceSettle(Pending, promise)

\* handleToolCall after the session is acquired (index.ts:432-465).
handleToolCall(name, args) ==
  IF name \notin SwitchCases
  THEN [op |-> NoOp, call |-> NoCall, opTimer |-> "unset", promise |-> Unset,
        opRace |-> Rejected("Unknown tool")]
  ELSE LET s == toolFunction(name, args)
       IN [op |-> s.op, call |-> s.call, opTimer |-> "armed", promise |-> s.result,
           opRace |-> executeWithTimeout(s.result)]

\* The modular handler after the session is acquired (part_002:319): the
\* tool's promise is awaited directly.
modularToolCall(name, args) ==
  LET s == registryHandler(name, args)
  IN [op |-> s.op, call |-> s.call, opTimer |-> "unset", promise |-> s.result,
      opRace |-> s.result]

Deliver(reply) ==
  /\ outcome' = reply
  /\ nResponses' = nResponses + 1
  /\ pc' = "done"

\* The handler resumes with the session and runs the tool up to its first
\* await.
StartTool ==
  LET h == IF impl = "mono" THEN handleToolCall(req.name, req.args)
           ELSE modularToolCall(req.name, req.args)
  IN /\ op' = h.op
     /\ pending' = h.call
     /\ calls' = IF h.call = NoCall THEN calls ELSE Append(calls, h.call)
     /\ opTimer' = h.opTimer
     /\ opPromise' = h.promise
     /\ opRace' = h.opRace
     /\ IF Settled(h.opRace) THEN Deliver(Respond(h.opRace))
        ELSE pc' = "executing" /\ UNCHANGED <<outcome, nResponses>>

\* createSalesforceConnection: the monolithic one races the login against a
\* timer (index.ts:80-89), the modular one is the login itself
\* (connection.ts:10-97).
createSalesforceConnection ==
  LET ci == IF impl = "mono" THEN createConnectionInternal(config)
            ELSE modularCreateConnection(config)
      race == RaceSettle(Pending, ci.login)
  IN /\ login' = ci.login
     /\ net' = net \o ci.net
     /\ connTimer' = IF impl = "mono" THEN "armed" ELSE "unset"
     /\ connRace' = race
     /\ IF Settled(race) THEN Deliver(Respond(race))
        ELSE pc' = "acquiring" /\ UNCHANGED <<outcome, nResponses>>
     /\ UNCHANGED <<opTimer, opPromise, opRace, op, pending, calls, applied>>

\* The CallToolRequestSchema handler of the monolithic server
\* (index.ts:1107-1113).
MonoCallTool(r) ==
  IF ~r.hasArgs
  THEN /\ Deliver(Thrown("Arguments are required"))
       /\ UNCHANGED <<login, connTimer, connRace, opTimer, opPromise, opRace, op, pending,
                      net, calls, applied>>
  ELSE createSalesforceConnection

\* The CallToolRequestSchema handler of the modular server
\* (part_002:305-329).
ModularCallTool(r) ==
  IF ~r.hasArgs \/ r.name \notin toolRegistry
  THEN /\ Deliver(IF ~r.hasArgs THEN Response(ErrorText("Arguments are required"), "true")
                  ELSE Response([t |-> "plain", msg |-> "Unknown tool"], "true"))
       /\ UNCHANGED <<login, connTimer, connRace, opTimer, opPromise, opRace, op, pending,
                      net, calls, applied>>
  ELSE createSalesforceConnection

\* A tool-call request arrives.
ReceiveCall(r) ==
  /\ pc = "idle"
  /\ req' = r
  /\ platformObject' \in IF r.name = "salesforce_manage_object" /\ r.hasArgs
                         THEN PlatformObjects ELSE {platformObject}
  /\ IF impl = "mono" THEN MonoCallTool(r) ELSE ModularCallTool(r)
  /\ UNCHANGED <<impl, config, concVars>>

\* The token exchange / login settles on an event of the network.
LoginSettle(response) ==
  /\ login = Pending
  /\ login' = OnLoginResponse(response)
  /\ net' = Append(net, response)
  /\ LET res == OnLoginResponse(response)
         race == RaceSettle(connRace, res)
     IN /\ connRace' = race
        /\ IF race = connRace
           THEN UNCHANGED <<pc, opTimer, opPromise, opRace, op, pending, calls, outcome,
                            nResponses>>
           ELSE IF race.st = "resolved" THEN StartTool
           ELSE /\ Deliver(Respond(race))
                /\ UNCHANGED <<opTimer, opPromise, opRace, op, pending, calls>>
  /\ UNCHANGED <<impl, config, platformObject, req, connTimer, applied, concVars>>

\* The timer of createSalesforceConnection fires (index.ts:85-87).
ConnTimerFire ==
  /\ connTimer = "armed"
  /\ connTimer' = "fired"
  /\ LET race == RaceSettle(connRace, Rejected("Connection timeout"))
     IN /\ connRace' = race
        /\ IF race = connRace THEN UNCHANGED <<pc, outcome, nResponses>>
           ELSE Deliver(Respond(race))
  /\ UNCHANGED <<impl, config, platformObject, req, login, opTimer, opPromise, opRace, op,
                 pending, net, calls, applied, concVars>>

\* The platform answers the call in flight and the tool runs to its next
\* await or to its end.
PlatformAnswer(ans) ==
  /\ pending # NoCall
  /\ LET r == IF impl = "mono" THEN Resume(op, ans) ELSE handleToolResume(op, ans)
         race == IF Settled(r.result) THEN RaceSettle(opRace, r.result) ELSE opRace
     IN /\ op' = r.op
        /\ pending' = r.call
        /\ calls' = IF r.call = NoCall THEN calls ELSE Append(calls, r.call)
        /\ applied' = IF Mutates(pending, ans)
                      THEN Append(applied, [call |-> pending,
                                            afterResponse |-> outcome # NoOutcome])
                      ELSE applied
        /\ opPromise' = r.result
        /\ opRace' = race
        /\ IF race = opRace THEN UNCHANGED <<pc, outcome, nResponses>>
           ELSE Deliver(Respond(race))
  /\ UNCHANGED <<impl, config, platformObject, req, login, connTimer, connRace, opTimer, net,
                 concVars>>

\* The timer of executeWithTimeout fires (index.ts:419-421).
OpTimerFire ==
  /\ opTimer = "armed"
  /\ opTimer' = "fired"
  /\ LET race == RaceSettle(opRace, Rejected("Operation timeout"))
     IN /\ opRace' = race
        /\ IF race = opRace THEN UNCHANGED <<pc, outcome, nResponses>>
           ELSE Deliver(Respond(race))
  /\ UNCHANGED <<impl, config, platformObject, req, login, connTimer, connRace, opPromise,
                 op, pending, net, calls, applied, concVars>>

\* ------------------------------------------------- concurrent invocations
Invocations == 1..MaxInvocations

\* The locals of one activation of the request handler: where it stands,
\* the promises of its session acquisition, and conn (0 while it has none).
IdleInvocation ==
  [pc |-> "idle", login |-> Unset, connTimer |-> "unset", connRace |-> Unset, conn |-> 0,
   ncalls |-> 0]

\* A connection kept in one module-level variable and handed to every caller.
SharedConnection(ss) == 1

\* new jsforce.Connection(...) (index.ts:135,150; connection.ts:63,77): an
\* object distinct from every connection created before.
NewConnection(ss) == Len(ss) + 1

\* An invocation starts: handleToolCall / the modular handler calls
\* createSalesforceConnection (index.ts:430, part_002:318).
InvokeTool(i) ==
  /\ inv[i].pc = "idle"
  /\ LET ci == IF impl = "mono" THEN createConnectionInternal(config)
               ELSE modularCreateConnection(config)
         race == RaceSettle(Pending, ci.login)
     IN inv' = [inv EXCEPT ![i] =
                  [@ EXCEPT !.pc = IF Settled(race) THEN "done" ELSE "acquiring",
                            !.login = ci.login,
                            !.connTimer = IF impl = "mono" THEN "armed" ELSE "unset",
                            !.connRace = race]]
  /\ UNCHANGED <<impl, config, callVars, sessions, log>>

\* The login or token exchange of an invocation settles; on success a
\* Connection is created and becomes the value of the login's promise.
SessionSettle(i, res) ==
  /\ inv[i].login = Pending
  /\ LET value == IF res.st = "resolved" THEN Resolved(NewConnection(sessions)) ELSE res
         race == RaceSettle(inv[i].connRace, value)
     IN /\ sessions' = IF res.st = "resolved" THEN Append(sessions, [owner |-> i]) ELSE sessions
        /\ inv' = [inv EXCEPT ![i] =
                     [@ EXCEPT !.login = value,
                               !.connRace = race,
                               !.conn = IF race # inv[i].connRace /\ race.st = "resolved"
                                        THEN race.v ELSE @,
                               !.pc = IF race = inv[i].connRace THEN @
                                      ELSE IF race.st = "resolved" THEN "executing" ELSE "done"]]
  /\ UNCHANGED <<impl, config, callVars, log>>

\* The timer of an invocation's createSalesforceConnection fires.
InvocationTimerFire(i) ==
  /\ inv[i].connTimer = "armed"
  /\ LET race == RaceSettle(inv[i].connRace, Rejected("Connection timeout"))
     IN inv' = [inv EXCEPT ![i] =
                  [@ EXCEPT !.connTimer = "fired",
                            !.connRace = race,
                            !.pc = IF race = inv[i].connRace THEN @ ELSE "done"]]
  /\ UNCHANGED <<impl, config, callVars, sessions, log>>

\* The tool function of an invocation issues a platform call through the
\* conn it was given (index.ts:434-462, part_002:319).
ToolCall(i) ==
  /\ inv[i].pc \in {"executing", "timedOut"}
  /\ inv[i].ncalls < MaxCalls
  /\ log' = log \cup {[by |-> i, via |-> inv[i].conn]}
  /\ inv' = [inv EXCEPT ![i].ncalls = @ + 1]
  /\ UNCHANGED <<impl, config, callVars, sessions>>

\* The timer of executeWithTimeout fires: the caller is answered and the
\* tool function goes on.
ToolTimeout(i) ==
  /\ impl = "mono"
  /\ inv[i].pc = "executing"
  /\ inv' = [inv EXCEPT ![i].pc = "timedOut"]
  /\ UNCHANGED <<impl, config, callVars, sessions, log>>

\* The tool function of an invocation ends.
ToolReturn(i) ==
  /\ inv[i].pc \in {"executing", "timedOut"}
  /\ inv' = [inv EXCEPT ![i].pc = "done"]
  /\ UNCHANGED <<impl, config, callVars, sessions, log>>

Init ==
  /\ impl \in {"mono", "modular"}
  /\ config \in ExtensionConfig
  /\ platformObject = [found |-> FALSE]
  /\ pc = "idle"
  /\ req = NoReq
  /\ login = Unset
  /\ connTimer = "unset"
  /\ connRace = Unset
  /\ opTimer = "unset"
  /\ opPromise = Unset
  /\ opRace = Unset
  /\ op = NoOp
  /\ pending = NoCall
  /\ net = <<>>
  /\ calls = <<>>
  /\ applied = <<>>
  /\ outcome = NoOutcome
  /\ nResponses = 0
  /\ inv = [i \in Invocations |-> IdleInvocation]
  /\ sessions = <<>>
  /\ log = {}

Next ==
  \/ \E r \in Requests : ReceiveCall(r)
  \/ \E response \in LoginResponses(impl, config) : LoginSettle(response)
  \/ ConnTimerFire
  \/ \E ans \in Answers(pending, platformObject) : PlatformAnswer(ans)
  \/ OpTimerFire

Spec == Init /\ [][Next]_vars

\* Timers fire; the network and the platform need not answer.
FairSpec == Spec /\ WF_vars(ConnTimerFire) /\ WF_vars(OpTimerFire)

ConcNext ==
  \E i \in Invocations :
    \/ InvokeTool(i)
    \/ \E res \in LoginResults(impl, config) : SessionSettle(i, res)
    \/ InvocationTimerFire(i)
    \/ ToolCall(i)
    \/ ToolTimeout(i)
    \/ ToolReturn(i)

\* Several tool calls handled at once by one server process.
ConcSpec == Init /\ [][ConcNext]_vars

\* ================================================================= claims

\* C1: every error raised while a tool-call request is handled (the
\* arguments-present check, session acquisition, the tool's execution) is
\* returned as a reply with isError = true carrying the error's message;
\* no error leaves the request handler.
C1_ErrorsCaught ==
  /\ outcome.kind # "thrown"
  /\ (req # NoReq /\ ~req.hasArgs)
       => outcome = Response(ErrorText("Arguments are required"), "true")
  /\ (connRace.st = "rejected") => outcome = Response(ErrorText(connRace.msg), "true")
  /\ (opRace.st = "rejected") => outcome = Response(ErrorText(opRace.msg), "true")

\* C2: a tool call never waits forever on session acquisition: if the
\* login or token exchange does not settle, the wait ends (with the
\* timeout error), in the monolithic and in the modular server.
C2_AcquisitionEnds == (pc = "acquiring") ~> (pc # "acquiring")

\* The same for the monolithic server alone.
MonoC2_AcquisitionEnds == (impl = "mono" /\ pc = "acquiring") ~> (pc # "acquiring")

\* The fields the selected connection type requires are not all present.
MissingRequired(c) ==
  IF c.connectionType = "OAuth_2.0_Client_Credentials"
  THEN c.clientId \in {"absent", "empty"} \/ c.clientSecret \in {"absent", "empty"}
  ELSE c.username \in {"absent", "empty"} \/ c.password \in {"absent", "empty"}

\* C3: when a field required by the selected connection type is absent or
\* empty, session acquisition fails with an error reply and neither a token
\* POST nor a login (nor any later platform call) is issued.
C3_NoNetworkWithoutCredentials ==
  MissingRequired(config) =>
    /\ net = <<>>
    /\ calls = <<>>
    /\ connRace # Unset =>
         /\ connRace.st = "rejected"
         /\ outcome.kind = "response" /\ outcome.isError = "true"

C3_Witness ==
  /\ MissingRequired(config)
  /\ connRace.st = "rejected"
  /\ outcome.kind = "response" /\ outcome.isError = "true"
  /\ net = <<>>

\* C4: in every rendered DML result the failure count is the number of raw
\* entries with success = false, the success count is the number of the
\* other entries, and the two add up to the number of records submitted.
C4_DmlCounts ==
  (op.tool = "dml" /\ op.answered /\ opPromise.st = "resolved") =>
    LET raw == AsArray(op.result)
        text == opPromise.v.text
        failures == {i \in DOMAIN raw : raw[i].success = FALSE}
    IN /\ text.failed = Cardinality(failures)
       /\ text.success = Cardinality(DOMAIN raw \ failures)
       /\ text.success + text.failed = req.args.records.n

C4_Witness ==
  /\ op.tool = "dml" /\ op.answered /\ opPromise.st = "resolved"
  /\ opPromise.v.text.failed >= 1
  /\ opPromise.v.text.success >= 1
  /\ outcome = opPromise.v

UpsertWithoutExternalId ==
  /\ req # NoReq /\ req.hasArgs
  /\ req.name = "salesforce_dml_records"
  /\ req.args.operation = "upsert"
  /\ ~req.args.externalIdField

\* C5: an upsert without externalIdField fails as a precondition failure
\* and no platform call is made for the invocation.
C5_UpsertNeedsExternalId ==
  UpsertWithoutExternalId =>
    /\ calls = <<>>
    /\ pending = NoCall
    /\ opPromise # Unset => opPromise.st = "rejected"
    /\ (opPromise # Unset /\ impl = "mono")
         => opPromise = Rejected("externalIdField required for upsert")
    /\ (opRace # Unset) => outcome.kind = "response" /\ outcome.isError = "true"

C5_Witness ==
  /\ UpsertWithoutExternalId
  /\ opPromise = Rejected("externalIdField required for upsert")
  /\ outcome = Response(ErrorText("externalIdField required for upsert"), "true")
  /\ calls = <<>>

\* Whether the platform has applied a field-permission grant for a profile.
GrantApplied(profile) ==
  \E i \in DOMAIN applied :
    applied[i].call.api = "FieldPermissions.create" /\ applied[i].call.profile = profile

\* C6: a grant over a list of profiles replies (not as an error) with one
\* line per profile in list order, and the line of a profile reports
\* success exactly when the grant to that profile succeeded and failure
\* exactly when it failed.
C6_GrantOutcomes ==
  (/\ op.tool = "manageFieldPermissions"
   /\ op.args.operation = "grant"
   /\ opPromise.st = "resolved") =>
    LET profiles == FieldPermProfiles(op.args)
        lines == opPromise.v.text.lines
    IN /\ opPromise.v.isError # "true"
       /\ Len(lines) = Len(profiles)
       /\ \A i \in DOMAIN lines :
            /\ lines[i].profile = profiles[i]
            /\ lines[i].kind = (IF GrantApplied(profiles[i]) THEN "Granted to" ELSE "Failed for")

\* C7: the caller gets exactly one outcome per call; once it is delivered
\* nothing changes it, whatever the losing operation does later.
C7_OneResponse ==
  [][/\ nResponses' <= 1
     /\ (pc' = "done") => (nResponses' = 1)
     /\ (outcome # NoOutcome) => (outcome' = outcome)]_vars

\* The caller holds the timeout error and the abandoned operation's
\* mutation has been applied on the platform after that.
C7_Witness ==
  /\ outcome = Response(ErrorText("Operation timeout"), "true")
  /\ nResponses = 1
  /\ \E i \in DOMAIN applied : applied[i].afterResponse

\* C8: once the session is acquired, a tool call whose operation does not
\* settle still ends with a reply.
C8_ExecutionEnds == (pc = "executing") ~> (pc = "done")

\* The same for the monolithic server alone.
MonoC8_ExecutionEnds == (impl = "mono" /\ pc = "executing") ~> (pc = "done")

\* C9: a call whose required arguments are missing or of the wrong coarse
\* type, once rejected by the argument check of the modular registry, has
\* issued no login / token request and no platform call.
C9_ValidationBeforeSession ==
  (/\ impl = "modular"
   /\ req # NoReq /\ req.hasArgs /\ req.name \in TOOLS
   /\ ~Validate(req.name, req.args)
   /\ outcome = Response(ErrorText("required arguments are missing"), "true")) =>
    net = <<>> /\ calls = <<>>

\* C10: every update manageObject submits was preceded by a read of the
\* current descriptor and equals that descriptor with only the
\* caller-supplied attributes replaced.
C10_ReadMergeWrite ==
  \A i \in DOMAIN calls :
    (calls[i].api = "metadata" /\ calls[i].method = "update") =>
      /\ \E j \in 1..(i - 1) : calls[j].api = "metadata" /\ calls[j].method = "read"
      /\ platformObject.found
      /\ \A k \in DescKeys :
           calls[i].metadata[k] =
             (IF OverrideOf(k) # "none" /\ req.args.attrs[OverrideOf(k)] # "absent"
              THEN req.args.attrs[OverrideOf(k)]
              ELSE platformObject.desc[k])

\* The same for the modular server alone.
ModularC10_ReadMergeWrite == (impl = "modular") => C10_ReadMergeWrite

\* The three outcome shapes of an executeAnonymous reply, by its lines.
ExecShape(lines) ==
  {s \in {"compile failure", "runtime failure", "success"} :
     CASE s = "compile failure" ->
            /\ lines[1] = [k |-> "Compilation", v |-> "Failed"]
            /\ \E i \in DOMAIN lines : lines[i].k = "Error at"
       [] s = "runtime failure" ->
            /\ lines[1] = [k |-> "Compilation", v |-> "Success"]
            /\ \E i \in DOMAIN lines : lines[i].k = "Execution" /\ lines[i].v = "Failed"
       [] s = "success" ->
            /\ lines[1] = [k |-> "Compilation", v |-> "Success"]
            /\ \E i \in DOMAIN lines : lines[i].k = "Execution" /\ lines[i].v = "Success"}

\* C11: the reply of executeAnonymous shows exactly one of the three
\* outcomes, the one the platform result determines: compile failure with
\* line, column and problem; runtime failure with 'Execution: Failed', the
\* exception message and the stack trace when there is one; or success.  A
\* runtime failure is not flagged as an error.
C11_ExecuteAnonymousOutcomes ==
  (op.tool = "executeAnonymous" /\ op.at = "end" /\ opPromise.st = "resolved") =>
    LET r == op.result
        lines == opPromise.v.text.lines
    IN /\ ExecShape(lines) =
            {IF ~r.compiled THEN "compile failure"
             ELSE IF r.success THEN "success" ELSE "runtime failure"}
       /\ ~r.compiled =>
            lines[2] = [k |-> "Error at", line |-> r.line, column |-> r.column,
                        problem |-> r.compileProblem]
       /\ (r.compiled /\ ~r.success) =>
            /\ lines[2] = [k |-> "Execution", v |-> "Failed", message |-> r.exceptionMessage]
            /\ IF r.exceptionStackTrace = "absent" THEN Len(lines) = 2
               ELSE /\ Len(lines) = 3
                    /\ lines[3] = [k |-> "Stack trace", trace |-> r.exceptionStackTrace]
            /\ opPromise.v.isError # "true"
       /\ (r.compiled /\ r.success) => Len(lines) = 2

C11_Witness ==
  /\ op.tool = "executeAnonymous" /\ op.at = "end" /\ opPromise.st = "resolved"
  /\ op.result.compiled /\ ~op.result.success
  /\ op.result.exceptionStackTrace # "absent"
  /\ outcome = opPromise.v
  /\ outcome.isError # "true"

EnableRequested ==
  /\ req # NoReq /\ req.hasArgs
  /\ req.name = "salesforce_manage_debug_logs"
  /\ req.args.operation = "enable" /\ req.args.username

\* The creates of one descriptor type among the calls issued so far.
CreatesOf(type) ==
  {i \in DOMAIN calls : calls[i].api = "tooling.create" /\ calls[i].type = type}

\* The enable descriptors, with the number of minutes the trace flag must
\* last given as a function of the expirationTime argument.
EnableDescriptors(minutes(_)) ==
  EnableRequested =>
    /\ Cardinality(CreatesOf("DebugLevel")) <= 1
    /\ Cardinality(CreatesOf("TraceFlag")) <= 1
    /\ \A j \in CreatesOf("TraceFlag") :
         /\ \E i \in CreatesOf("DebugLevel") : i < j
         /\ calls[j].DebugLevelId = DebugLevelId
         /\ calls[j].TracedEntityId = UserId
         /\ calls[j].ExpirationDate = [base |-> "now", plus |-> minutes(req.args.expirationTime)]
    /\ (opPromise.st = "resolved") =>
         Cardinality(CreatesOf("DebugLevel")) = 1 /\ Cardinality(CreatesOf("TraceFlag")) = 1

\* C13: an enable for a resolvable user creates one DebugLevel, then one
\* TraceFlag that references the DebugLevel's id and the user's id and
\* expires expirationTime minutes after the time of the invocation, 30
\* minutes when expirationTime is not supplied.
C13_EnableDescriptors ==
  EnableDescriptors(LAMBDA e : IF e.given THEN e.minutes ELSE 30)

\* The same with an expirationTime of 0 read as not supplied.
FalsyC13_EnableDescriptors ==
  EnableDescriptors(LAMBDA e : IF e.given /\ e.minutes # 0 THEN e.minutes ELSE 30)

\* A successful enable with expirationTime 15.
FalsyC13_Reached ==
  /\ EnableRequested /\ req.args.expirationTime = [given |-> TRUE, minutes |-> 15]
  /\ opPromise.st = "resolved" /\ outcome = opPromise.v

\* C14: under every interleaving of concurrent invocations, each invocation
\* holds a session it created itself and shares with no other invocation,
\* every platform call goes through the caller's own session, and no
\* invocation writes the module-level state (the configuration).
C14_SessionIsolation ==
  /\ [](/\ \A i \in Invocations :
             inv[i].conn # 0 =>
               /\ sessions[inv[i].conn].owner = i
               /\ \A j \in Invocations \ {i} : inv[j].conn # inv[i].conn
        /\ \A c \in log :
             /\ c.via = inv[c.by].conn
             /\ sessions[c.via].owner = c.by)
  /\ [][config' = config /\ impl' = impl]_vars

\* Two invocations in the middle of their tools at the same time, each
\* with its session and with platform calls already made through it.
C14_Witness ==
  \E i, j \in Invocations :
    /\ i # j
    /\ inv[i].pc = "executing" /\ inv[j].pc = "executing"
    /\ inv[i].conn # 0 /\ inv[j].conn # 0
    /\ \E c, d \in log : c.by = i /\ d.by = j

\* The credential fields of the selected connection type.
OwnFields(c) ==
  IF c.connectionType = "OAuth_2.0_Client_Credentials"
  THEN <<c.clientId, c.clientSecret>>
  ELSE <<c.username, c.password, c.securityToken>>

\* The configurations that differ from c in the other flow's fields only.
Twins(c) ==
  {d \in ExtensionConfig : d.connectionType = c.connectionType /\ OwnFields(d) = OwnFields(c)}

Connect(im, c) ==
  IF im = "mono" THEN createConnectionInternal(c) ELSE modularCreateConnection(c)

\* C15: session acquisition does not mix the two credential flows: a run
\* under any configuration that differs only in the other flow's fields
\* issues the same network requests, can be answered in the same ways and
\* settles its login in the same way.
C15_NoFlowMixing ==
  \A d \in Twins(config) :
    /\ Connect(impl, d) = Connect(impl, config)
    /\ LoginResponses(impl, d) = LoginResponses(impl, config)
    /\ (login # Unset) =>
         /\ SelectSeq(net, LAMBDA m : m.kind \in {"tokenPOST", "login"}) = Connect(impl, d).net
         /\ login \in {Connect(impl, d).login} \cup LoginResults(impl, d)

\* A password login completed while the client credentials are set too.
C15_Witness ==
  /\ config.connectionType = "User_Password"
  /\ config.clientId = "set" /\ config.clientSecret = "set"
  /\ Cardinality(Twins(config)) >= 2
  /\ net = <<LoginRequest(config), [kind |-> "loginResponse", ok |-> TRUE]>>
  /\ login.st = "resolved"

\* C16: in the OAuth flow, a token response of status 200 (with the JSON
\* token body) yields a session whose instanceUrl and accessToken are the
\* response's instance_url and access_token.
C16_TokenSession ==
  \A k \in DOMAIN net :
    (net[k].kind = "tokenResponse" /\ net[k].status = 200 /\ net[k].body.parsable) =>
      /\ login = Resolved([instanceUrl |-> net[k].body.instance_url,
                           accessToken |-> net[k].body.access_token])
      /\ (connRace.st = "resolved") => connRace.v = login.v

\* A tool call issued through a session acquired from a 200 response.
C16_Witness ==
  /\ Len(net) = 2 /\ net[2].kind = "tokenResponse" /\ net[2].status = 200
  /\ connRace = Resolved([instanceUrl |-> "instance_url", accessToken |-> "access_token"])
  /\ calls # <<>>

\* C17: in the OAuth flow, a token response of any status other than 200
\* makes session acquisition fail, with the error and error_description of
\* the response in the message when the response supplies them; no session
\* is produced, no tool operation runs, and the caller gets an error reply.
C17_TokenRejected ==
  \A k \in DOMAIN net :
    (net[k].kind = "tokenResponse" /\ net[k].status # 200) =>
      /\ login.st = "rejected"
      /\ net[k].body.parsable =>
           login.msg = "OAuth failed: invalid_client - invalid client credentials"
      /\ connRace.st = "rejected"
      /\ connRace.msg \in {login.msg, "Connection timeout"}
      /\ op = NoOp /\ opPromise = Unset /\ calls = <<>> /\ applied = <<>>
      /\ outcome = Response(ErrorText(connRace.msg), "true")

C17_Witness ==
  /\ Len(net) = 2 /\ net[2] = [kind |-> "tokenResponse", status |-> 400, body |-> ErrorBody]
  /\ outcome = Response(ErrorText("OAuth failed: invalid_client - invalid client credentials"),
                        "true")
  /\ calls = <<>>

\* C18: every reply to a tool call has the shape {content, isError} with
\* isError present: true when the call failed, false when the operation
\* succeeded.
C18_UniformShape ==
  (outcome.kind = "response") =>
    /\ outcome.isError \in {"true", "false"}
    /\ (connRace.st = "rejected" \/ opRace.st = "rejected") => outcome.isError = "true"
    /\ (opRace.st = "resolved" /\ op.tool # "handleManageObject") => outcome.isError = "false"

\* The same for the modular server alone.
ModularC18_UniformShape == (impl = "modular") => C18_UniformShape

ValueAt(row, path) ==
  LET first == row.f[path[1]]
  IN IF Len(path) = 1
     THEN IF first.k = "scalar" THEN first.v ELSE "null"
     ELSE IF first.k # "record" THEN "null"
     ELSE LET second == first.f[path[2]]
          IN IF Len(path) = 2
             THEN IF second.k = "scalar" THEN second.v ELSE "null"
             ELSE IF second.k # "record" THEN "null"
             ELSE LET third == second.f[path[3]]
                  IN IF third.k = "scalar" THEN third.v ELSE "null"

\* C20: the text of queryRecords for a result of n rows reports n and has
\* n record blocks in row order, each with the requested fields in input
\* order and their values; a dotted path is followed through the related
\* records and shows null when a relationship on the path is absent.
C20_QueryRendering ==
  (op.tool = "queryRecords" /\ op.at = "end" /\ opPromise.st = "resolved") =>
    LET rows == op.rows
        fields == op.args.fields.list
        text == opPromise.v.text
    IN /\ text.count = Len(rows)
       /\ Len(text.blocks) = Len(rows)
       /\ \A i \in DOMAIN text.blocks :
            /\ text.blocks[i].record = i
            /\ Len(text.blocks[i].lines) = Len(fields)
            /\ \A j \in DOMAIN fields :
                 /\ text.blocks[i].lines[j].field = fields[j]
                 /\ text.blocks[i].lines[j].value = ValueAt(rows[i], fields[j])

\* Two rows and two fields, the dotted one absent in the second row.
C20_Witness ==
  /\ op.tool = "queryRecords" /\ op.at = "end" /\ opPromise.st = "resolved"
  /\ Len(op.rows) = 2 /\ op.args.fields.list = <<<<"Account", "Owner", "Name">>, <<"Name">>>>
  /\ opPromise.v.text.blocks[1].lines[1].value = "Owner"
  /\ opPromise.v.text.blocks[2].lines[1].value = "null"
  /\ opPromise.v.text.blocks[2].lines[2].value = "Beta"
  /\ outcome = opPromise.v

\* Whether a group holds a value under a key.
HoldsValue(group, key) == Get(group, key).k \notin {"null", "undefined"}

\* The aggregate text, given what it means for a group to have a value
\* under the alias.
AggregateValues(hasAliasValue(_, _)) ==
  (op.tool = "aggregateQuery" /\ op.at = "end" /\ opPromise.st = "resolved") =>
    LET groups == op.groups
        fields == op.args.selectFields.list
        text == opPromise.v.text
    IN /\ Len(text.blocks) = Len(groups)
       /\ \A i \in DOMAIN groups : \A j \in DOMAIN fields :
            text.blocks[i].lines[j].value =
              (IF hasAliasValue(groups[i], fields[j].alias)
               THEN Get(groups[i], fields[j].alias).v
               ELSE IF HoldsValue(groups[i], fields[j].base)
               THEN Get(groups[i], fields[j].base).v
               ELSE "null")

\* C21: for every select-field and every result group, the value rendered
\* is the group's value under the field's alias whenever the group holds a
\* value there, otherwise its value under the bare field name, and 'null'
\* only when it holds a value under neither.
C21_AggregateAlias == AggregateValues(HoldsValue)

\* The same with a falsy value under the alias (0, '', false) read as no
\* value.
TruthyC21_AggregateAlias ==
  AggregateValues(LAMBDA g, k : HoldsValue(g, k) /\ Truthy(Get(g, k)))

\* The calls of grantFieldPermissions.
IsGrantCall(c) ==
  \/ c.api = "FieldPermissions.create"
  \/ c.api = "query" /\ c.sobject \in {"Profile", "PermissionSet"}

\* C22: manageField issues a permission-granting call only when the
\* operation is 'create', the metadata create reported success and
\* grantAccessTo was supplied; such a call comes after the answered create
\* and before manageField returns its reply, which it does only once the
\* granting has run to its end.
C22_GrantOnlyAfterCreate ==
  (op # NoOp /\ op.tool = "manageField") =>
    /\ \A i \in DOMAIN calls :
         IsGrantCall(calls[i]) =>
           /\ op.args.operation = "create" /\ op.success /\ op.args.grantAccessTo.given
           /\ i > 1 /\ calls[1].api = "metadata" /\ calls[1].method = "create"
           /\ Len(applied) >= 1 /\ applied[1].call = calls[1]
           /\ (i = Len(calls) /\ pending # NoCall) => opPromise.st = "pending"
    /\ opPromise.st = "resolved" =>
         /\ pending = NoCall
         /\ opPromise.v.text.granted = GrantAfterCreate(op.args, op.success)
         /\ opPromise.v.text.granted => op.g.at = "return"
C22_Witness ==
  /\ op # NoOp /\ op.tool = "manageField" /\ opPromise.st = "resolved"
  /\ opPromise.v.text.granted
  /\ \E i \in DOMAIN calls : calls[i].api = "FieldPermissions.create"

\* The field types that refer to another object.
ReferenceTypes == {"Lookup", "MasterDetailRelationship"}
HasReferenceAttributes(m) ==
  \E k \in {"referenceTo", "relationshipName", "relationshipLabel", "deleteConstraint"} :
    m[k] # "absent"

\* The descriptors manageField submits, given when reference attributes
\* are in place.
FieldDescriptors(referenceRequested(_)) ==
  \A i \in DOMAIN calls :
    (calls[i].api = "metadata" /\ calls[i].type = "CustomField") =>
      /\ HasReferenceAttributes(calls[i].metadata) => referenceRequested(req.args)
      /\ calls[i].metadata.valueSet # "absent" => req.args.picklistValues

\* C26: the submitted CustomField descriptor carries reference attributes
\* only when a reference field type is requested, and a value-set only when
\* picklist values are supplied.
C26_ReferenceAttributes == FieldDescriptors(LAMBDA a : a.type \in ReferenceTypes)

\* The same with "a reference is requested" read as "referenceTo is
\* supplied", whatever the type.
ReferenceToC26_ReferenceAttributes == FieldDescriptors(LAMBDA a : a.referenceTo)
ReferenceToC26_Reached ==
  \E i \in DOMAIN calls :
    /\ calls[i].api = "metadata" /\ calls[i].type = "CustomField"
    /\ calls[i].metadata.referenceTo # "absent" /\ calls[i].metadata.valueSet # "absent"

\* C27: manageObject and manageField invoke no metadata method other than
\* create and update, whatever the operation argument.
C27_CreateOrUpdateOnly ==
  \A i \in DOMAIN calls :
    calls[i].api = "metadata" => calls[i].method \in {"create", "update"}

\* The field names of a manageField grant and of the descriptor it created.
GrantedFieldNames(fieldNames) ==
  (op # NoOp /\ op.tool = "manageField" /\ op.args.fieldName \in fieldNames) =>
    \A i \in DOMAIN calls :
      calls[i].api = "FieldPermissions.create" =>
        FullName(calls[i].field) = calls[1].metadata.fullName

\* C29: the full field name on which manageField grants permissions is the
\* fullName of the descriptor it created, for every fieldName, one ending
\* in '__c' included.
C29_GrantedFieldName == GrantedFieldNames({"Field", "Field__c"})

\* The same for field names without the custom suffix.
UnsuffixedC29_GrantedFieldName == GrantedFieldNames({"Field"})

\* C23: an 'update' of writeApex or writeApexTrigger first looks the
\* identifier up by name; with no row found it fails with the not-found
\* error and issues no update; otherwise it issues exactly one update, of
\* the resolved identifier and the new body and nothing else.
C23_ApexUpdate ==
  (op # NoOp /\ op.tool \in {"writeApex", "writeApexTrigger"} /\ op.args.operation = "update") =>
    /\ calls # <<>> /\ calls[1] = ApexLookup(op.sobject, op.args)
    /\ Len(calls) <= 2
    /\ Len(calls) = 2 =>
         /\ op.looked /\ op.records # <<>>
         /\ calls[2].api = "apex.update" /\ calls[2].sobject = op.sobject
         /\ calls[2].record = [Id |-> op.records[1].Id, Body |-> ArgValue(op.args.body, "Body")]
    /\ (op.looked /\ op.records = <<>>) =>
         /\ Len(calls) = 1 /\ pending = NoCall
         /\ opPromise \in {Rejected("Class not found"), Rejected("Trigger not found")}
    /\ (op.looked /\ op.records # <<>>) => Len(calls) = 2
    /\ opPromise.st = "resolved" =>
         /\ opPromise.v.text.what = "Updated" /\ Len(calls) = 2
         /\ Len(applied) = 1 /\ applied[1].call = calls[2]
C23_Witness ==
  /\ op # NoOp /\ op.tool = "writeApexTrigger" /\ op.args.operation = "update"
  /\ opPromise.st = "resolved" /\ Len(op.records) = 2 /\ op.records[1] # op.records[2]
C23_NotFoundReached ==
  /\ op # NoOp /\ op.tool = "writeApex" /\ op.args.operation = "update"
  /\ op.looked /\ op.records = <<>> /\ outcome # NoOutcome

\* The trace flags removed on the platform during the invocation.
RemovedFlags ==
  {applied[i].call.flag : i \in {j \in DOMAIN applied : applied[j].call.api = "tooling.delete"}}

\* C24: a 'disable' of manageDebugLogs issues a delete for every unexpired
\* trace flag its query found for the user, and the count it reports is
\* the number of trace flags the invocation removed.
C24_DisableCount ==
  (op # NoOp /\ op.tool = "manageDebugLogs" /\ op.args.operation = "disable") =>
    /\ \A i \in DOMAIN calls :
         calls[i].api = "tooling.delete" =>
           /\ calls[i].flag \in 1..op.n
           /\ \A j \in DOMAIN calls : calls[j] = calls[i] => j = i
           /\ \E j \in 1..(i - 1) :
                calls[j] = [api |-> "tooling.query", sobject |-> "TraceFlag",
                            TracedEntityId |-> UserId]
    /\ opPromise.st = "resolved" =>
         /\ opPromise.v.text.what = "Disabled"
         /\ \A k \in 1..op.n : \E i \in DOMAIN calls : calls[i] = TraceFlagDelete(k)
         /\ RemovedFlags = 1..op.n
         /\ opPromise.v.text.n = Cardinality(RemovedFlags)
C24_Witness ==
  /\ op # NoOp /\ op.tool = "manageDebugLogs" /\ op.args.operation = "disable"
  /\ opPromise.st = "resolved" /\ opPromise.v.text.n = MaxFlags
  /\ Cardinality(RemovedFlags) = MaxFlags

RECURSIVE SumCounts(_)
SumCounts(groups) ==
  IF groups = <<>> THEN 0 ELSE groups[1].count + SumCounts(Tail(groups))

\* The groups of a searchAll reply, for the requests whose object names
\* are among names.
SearchGroups(names) ==
  (/\ op # NoOp /\ op.tool = "searchAll" /\ opPromise.st = "resolved"
   /\ \A i \in DOMAIN op.args.objects.list : op.args.objects.list[i].name \in names) =>
    LET objects == op.args.objects.list
        found == op.searchRecords
        groups == opPromise.v.text.groups
    IN /\ Len(groups) = Len(objects)
       /\ \A g \in DOMAIN groups :
            /\ groups[g].name = objects[g].name
            /\ groups[g].count = Len(groups[g].records)
            /\ \A j \in DOMAIN groups[g].records :
                 found[groups[g].records[j].of].attributes.type = objects[g].name
            /\ \A j, k \in DOMAIN groups[g].records :
                 j < k => groups[g].records[j].of < groups[g].records[k].of
       /\ \A r \in DOMAIN found : \A g \in DOMAIN groups :
            (\E j \in DOMAIN groups[g].records : groups[g].records[j].of = r)
              <=> found[r].attributes.type = objects[g].name
       /\ SumCounts(groups) = Len(found)

\* C25: every record of the flat result is rendered in the group of the
\* requested object whose name is its type tag and in no other; groups are
\* in request order, records in result order, and the group counts sum to
\* the size of the result set.
C25_SearchPartition == SearchGroups({"Account", "Contact", "account"})

\* The same for requests that spell every object name as the platform
\* does.
ApiNameC25_SearchPartition == SearchGroups({"Account", "Contact"})
ApiNameC25_Reached ==
  /\ op # NoOp /\ op.tool = "searchAll" /\ opPromise.st = "resolved"
  /\ Len(op.args.objects.list) = 2 /\ Len(op.searchRecords) = 2
  /\ opPromise.v.text.groups[1].count = 1 /\ opPromise.v.text.groups[2].count = 1
  /\ opPromise.v.text.groups[1].records[1].of = 2

\* C28: the tool issues no platform call unless session acquisition has
\* succeeded; once acquisition has failed or lost the race against its
\* timer, no platform call is ever issued, whether or not the abandoned
\* login completes later.
C28_NoCallWithoutSession ==
  /\ (calls # <<>> \/ pending # NoCall \/ op # NoOp) =>
       connRace.st = "resolved" /\ login.st = "resolved"
  /\ connRace.st = "rejected" =>
       calls = <<>> /\ pending = NoCall /\ applied = <<>>
  /\ outcome = Respond(Rejected("Connection timeout")) => calls = <<>> /\ applied = <<>>
C28_Witness ==
  /\ connRace = Rejected("Connection timeout") /\ connTimer = "fired"
  /\ login.st = "resolved"
  /\ outcome = Respond(Rejected("Connection timeout"))
  /\ calls = <<>>

\* The calls that take a field permission away from a profile or lower it.
RevokingApis == {"FieldPermissions.delete", "FieldPermissions.update"}

\* C30: a 'revoke' of manageFieldPermissions reports 'Revoked from' a
\* profile only if a call removing or lowering that profile's permission on
\* the field was issued and succeeded during the invocation.
C30_RevokeReported ==
  (/\ op # NoOp /\ op.tool = "manageFieldPermissions" /\ op.args.operation = "revoke"
   /\ opPromise.st = "resolved") =>
    \A l \in DOMAIN opPromise.v.text.lines :
      opPromise.v.text.lines[l].kind = "Revoked from" =>
        \E i \in DOMAIN applied :
          /\ applied[i].call.api \in RevokingApis
          /\ applied[i].call.profile = opPromise.v.text.lines[l].profile

====
